---- MODULE Spec2Model ----
(***************************************************************************)
(* Patient records, vitals history and audit log of the hospital records   *)
(* application.  The record store is the relational database reached       *)
(* through DatabaseStorage (server/storage.ts exports                      *)
(* `storage = new DatabaseStorage()`); its tables are the variables below. *)
(* Every storage method is an operator from a database value (a record of  *)
(* the tables and sequences) to the new database value and the method's    *)
(* return; the actions apply them.                                         *)
(***************************************************************************)
EXTENDS Integers, Sequences, FiniteSets, TLC

\* ------------------------------------------------------------------ bounds
\* Serial ids handed out by each table's sequence are capped in the guards.
MaxPatientSerial == 2
MaxHistorySerial == 3
MaxPredictionSerial == 1
MaxAuditSerial == 2
MaxUserSerial == 4
\* Session tokens issued.
MaxSessions == 2
\* The ids MemStorage hands out beyond its sample data are capped in the guards.
MaxMemPatientId == 4
MaxMemHistoryId == 19
MaxMemAuditId == 2
\* The wall clock (Date.now(), now()) runs over 0..MaxClock.
MaxClock == 1

\* Longest text of a field of the CSV export.
MaxFieldLen == 2

\* Calls in flight at a time.
MaxCalls == 1

\* updatePatient calls of DatabaseStorage in flight at a time, and the
\* manual_edit entries they may append.
MaxEdits == 2

\* ------------------------------------------------------------ JS/SQL values
\* SQL NULL in a nullable numeric column (weight, height).
Null == -1
\* JavaScript `undefined`: the value of a property the object does not have.
Undefined == -2

\* JavaScript truthiness of a number-or-missing value: 0, null and undefined
\* are falsy.
Truthy(v) == v /= 0 /\ v /= Null /\ v /= Undefined

\* JavaScript `a || b`.
OrElse(a, b) == IF Truthy(a) THEN a ELSE b

\* obj.f for an object held as a function from its property names.
Prop(obj, f) == IF f \in DOMAIN obj THEN obj[f] ELSE Undefined

\* ------------------------------------------------------------------ schema
\* The patients columns the model keeps.  name stands for the text columns
\* (name, phone, medicalHistory) and age, none of which a storage method reads.
PatientNotNull ==
    {"patientId", "name", "bloodSugar", "bloodPressureSystolic", "bloodPressureDiastolic"}

PatientNullable == {"weight", "height", "createdBy"}

\* The five vitals fields updatePatient looks at.
VitalsFields ==
    {"bloodPressureSystolic", "bloodPressureDiastolic", "bloodSugar", "weight", "height"}

\* ------------------------------------------------------------------- state
VARIABLES
    users,              \* users table: id -> row
    patients,           \* patients table: id -> row
    healthHistory,      \* health_history table: id -> row
    healthPredictions,  \* health_predictions table: id -> row
    patientsSeq,        \* last value of patients_id_seq
    healthHistorySeq,   \* last value of health_history_id_seq
    healthPredictionsSeq,
    auditLogs,          \* audit_logs table: id -> row
    auditLogsSeq,
    usersSeq,           \* last value of users_id_seq
    medicalImages,      \* medical_images table: id -> row
    medicalImagesSeq,
    appointments,       \* appointments table: id -> row
    appointmentsSeq,
    sessions,           \* the session map of the routes: token -> principal
    sessionsSeq,        \* tokens issued so far
    mem,                \* the MemStorage instance: its maps and counters
    now,                \* the clock
    calls,              \* the calls in flight: call -> its position and locals
    last                \* the last call (storage method or request) and its result

\* The tables and their sequences.
dbVars ==
    <<users, patients, healthHistory, healthPredictions, auditLogs, patientsSeq,
      healthHistorySeq, healthPredictionsSeq, auditLogsSeq, usersSeq, medicalImages,
      medicalImagesSeq, appointments, appointmentsSeq>>

vars == <<dbVars, sessions, sessionsSeq, mem, now, calls, last>>

\* The database as one value.
DB ==
    [users |-> users, patients |-> patients, healthHistory |-> healthHistory,
     healthPredictions |-> healthPredictions, patientsSeq |-> patientsSeq,
     healthHistorySeq |-> healthHistorySeq,
     healthPredictionsSeq |-> healthPredictionsSeq,
     auditLogs |-> auditLogs, auditLogsSeq |-> auditLogsSeq, usersSeq |-> usersSeq,
     medicalImages |-> medicalImages, medicalImagesSeq |-> medicalImagesSeq,
     appointments |-> appointments, appointmentsSeq |-> appointmentsSeq]

Commit(d) ==
    /\ users' = d.users
    /\ patients' = d.patients
    /\ healthHistory' = d.healthHistory
    /\ healthPredictions' = d.healthPredictions
    /\ patientsSeq' = d.patientsSeq
    /\ healthHistorySeq' = d.healthHistorySeq
    /\ healthPredictionsSeq' = d.healthPredictionsSeq
    /\ auditLogs' = d.auditLogs
    /\ auditLogsSeq' = d.auditLogsSeq
    /\ usersSeq' = d.usersSeq
    /\ medicalImages' = d.medicalImages
    /\ medicalImagesSeq' = d.medicalImagesSeq
    /\ appointments' = d.appointments
    /\ appointmentsSeq' = d.appointmentsSeq

\* The default accounts: administrator (id 1), staff (id 2) and the portal
\* account of a patient (id 3).
SeedUsers ==
    (1 :> [username |-> "admin", password |-> "admin123", role |-> "admin", isActive |-> TRUE])
    @@ (2 :> [username |-> "staff", password |-> "staff123", role |-> "staff", isActive |-> TRUE])
    @@ (3 :> [username |-> "PT-2024-001", password |-> "patient123", role |-> "patient",
              isActive |-> TRUE])

\* An empty table.
Empty == [x \in {} |-> x]

\* A method's outcome: the database it leaves, how it ended and the value it
\* returned.  status is "ok" (a value was returned), "undefined" (undefined was
\* returned) or the constraint whose violation made the driver throw.
Outcome(d, status, val) == [db |-> d, status |-> status, val |-> val]

Errors == {"foreign_key_violation", "unique_violation", "not_null_violation"}

Threw(o) == o.status \in Errors

\* ----------------------------------------------------------- text helpers
\* Strings that the claims look into are sequences of one-character strings.
Digit(k) == <<"0", "1", "2", "3", "4", "5", "6", "7", "8", "9">>[k + 1]

RECURSIVE NumberToString(_)
\* String(n) / `${n}` for a non-negative integer.
NumberToString(n) == IF n < 10 THEN <<Digit(n)>> ELSE NumberToString(n \div 10) \o <<Digit(n % 10)>>

\* POST /api/patients: patientId: `PT-${Date.now()}`.
generatedPatientId(t) == <<"P", "T", "-">> \o NumberToString(t)

\* --------------------------------------------------- DatabaseStorage methods
\* Rows of health_history that belong to patient id.
HistoryOf(d, id) == {h \in DOMAIN d.healthHistory : d.healthHistory[h].patientId = id}

\* f restricted to the keys in S.
Restrict(f, S) == [x \in S |-> f[x]]

\* A value bound to a column: a missing property is stored as NULL.
Col(obj, f) ==
    IF f \notin DOMAIN obj THEN Null
    ELSE IF f \in VitalsFields \union {"createdBy"} /\ obj[f] = Undefined THEN Null
    ELSE obj[f]

\* createHealthHistory as an upsert: the patient's latest entry is overwritten
\* when there is one.
createHealthHistory_overwrite(d, history, t) ==
    LET own == {h \in DOMAIN d.healthHistory : d.healthHistory[h].patientId = history.patientId}
        id == IF own = {} THEN d.healthHistorySeq + 1
              ELSE CHOOSE h \in own : \A g \in own : g <= h
        row == [patientId |-> history.patientId,
                recordedBy |-> history.recordedBy,
                bloodSugar |-> Col(history, "bloodSugar"),
                bloodPressureSystolic |-> Col(history, "bloodPressureSystolic"),
                bloodPressureDiastolic |-> Col(history, "bloodPressureDiastolic"),
                changeType |-> history.changeType,
                timestamp |-> t]
    IN  IF history.recordedBy \notin DOMAIN d.users
           \/ history.patientId \notin DOMAIN d.patients
        THEN Outcome(d, "foreign_key_violation", 0)
        ELSE Outcome([d EXCEPT !.healthHistorySeq = IF own = {} THEN id ELSE @,
                               !.healthHistory = (id :> row) @@ @], "ok", id)

\* db.insert(healthHistory).values(history).returning(), at time t.  Only the
\* table's columns are written (weight and height are no columns of
\* health_history); the serial id is drawn before the constraints are checked.
createHealthHistory(d, history, t) ==
    LET id == d.healthHistorySeq + 1
        drawn == [d EXCEPT !.healthHistorySeq = id]
        row == [patientId |-> history.patientId,
                recordedBy |-> history.recordedBy,
                bloodSugar |-> Col(history, "bloodSugar"),
                bloodPressureSystolic |-> Col(history, "bloodPressureSystolic"),
                bloodPressureDiastolic |-> Col(history, "bloodPressureDiastolic"),
                changeType |-> history.changeType,
                timestamp |-> t]
    IN  IF history.recordedBy \in {Null, Undefined} \/ history.patientId \in {Null, Undefined}
        THEN Outcome(drawn, "not_null_violation", 0)
        ELSE IF history.recordedBy \notin DOMAIN d.users
                \/ history.patientId \notin DOMAIN d.patients
        THEN Outcome(drawn, "foreign_key_violation", 0)
        ELSE Outcome([drawn EXCEPT !.healthHistory = @ @@ (id :> row)], "ok", id)

\* db.insert(patients).values(patient).returning()
insertPatient(d, patient) ==
    LET id == d.patientsSeq + 1
        drawn == [d EXCEPT !.patientsSeq = id]
        row == [c \in PatientNotNull \union PatientNullable |-> Col(patient, c)]
    IN  IF ~(PatientNotNull \subseteq DOMAIN patient)
        THEN Outcome(drawn, "not_null_violation", 0)
        ELSE IF \E p \in DOMAIN d.patients : d.patients[p].patientId = patient.patientId
        THEN Outcome(drawn, "unique_violation", 0)
        ELSE IF row.createdBy /= Null /\ row.createdBy \notin DOMAIN d.users
        THEN Outcome(drawn, "foreign_key_violation", 0)
        ELSE Outcome([drawn EXCEPT !.patients = @ @@ (id :> row)], "ok", id)

\* DatabaseStorage.createPatient: the row, then its initial history entry, as
\* two statements with no transaction around them.
createPatient(d, patient, t) ==
    LET ins == insertPatient(d, patient)
        h == createHealthHistory(ins.db,
                 [patientId |-> ins.val,
                  bloodPressureSystolic |-> Prop(patient, "bloodPressureSystolic"),
                  bloodPressureDiastolic |-> Prop(patient, "bloodPressureDiastolic"),
                  bloodSugar |-> Prop(patient, "bloodSugar"),
                  weight |-> Prop(patient, "weight"),
                  height |-> Prop(patient, "height"),
                  recordedBy |-> Prop(patient, "createdBy"),
                  changeType |-> "initial_record"], t)
    IN  IF Threw(ins) THEN ins
        ELSE IF Threw(h) THEN h
        ELSE Outcome(h.db, "ok", ins.val)

\* db.update(patients).set(patient).where(eq(patients.id, id))
setPatient(d, id, patient) ==
    [d EXCEPT !.patients[id] =
        [c \in DOMAIN @ |-> IF c \in DOMAIN patient THEN patient[c] ELSE @[c]]]

\* The condition under which updatePatient records history.
recordsHistory(patient) ==
    \/ Truthy(Prop(patient, "bloodPressureSystolic"))
    \/ Truthy(Prop(patient, "bloodPressureDiastolic"))
    \/ Truthy(Prop(patient, "bloodSugar"))
    \/ Truthy(Prop(patient, "weight"))
    \/ Truthy(Prop(patient, "height"))

\* The user id updatePatient stamps on the history entry.
updateRecordedBy == 1

\* updatePatient without the lookup of the existing row: the UPDATE matches
\* no row and the history insert is attempted all the same.
updatePatient_noLookup(d, id, patient, t) ==
    LET upd == IF id \in DOMAIN d.patients THEN setPatient(d, id, patient) ELSE d
        h == createHealthHistory(upd,
                 [patientId |-> id,
                  bloodPressureSystolic |-> Prop(patient, "bloodPressureSystolic"),
                  bloodPressureDiastolic |-> Prop(patient, "bloodPressureDiastolic"),
                  bloodSugar |-> Prop(patient, "bloodSugar"),
                  recordedBy |-> updateRecordedBy,
                  changeType |-> "manual_edit"], t)
    IN  IF recordsHistory(patient)
        THEN IF Threw(h) THEN h ELSE Outcome(h.db, "ok", id)
        ELSE Outcome(upd, IF id \in DOMAIN d.patients THEN "ok" ELSE "undefined", id)

\* DatabaseStorage.updatePatient
updatePatient(d, id, patient, t) ==
    IF id \notin DOMAIN d.patients THEN Outcome(d, "undefined", 0)
    ELSE
    LET existingPatient == d.patients[id]
        upd == setPatient(d, id, patient)
        h == createHealthHistory(upd,
                 [patientId |-> id,
                  bloodPressureSystolic |->
                      OrElse(Prop(patient, "bloodPressureSystolic"),
                             existingPatient.bloodPressureSystolic),
                  bloodPressureDiastolic |->
                      OrElse(Prop(patient, "bloodPressureDiastolic"),
                             existingPatient.bloodPressureDiastolic),
                  bloodSugar |-> OrElse(Prop(patient, "bloodSugar"), existingPatient.bloodSugar),
                  weight |-> OrElse(Prop(patient, "weight"), existingPatient.weight),
                  height |-> OrElse(Prop(patient, "height"), existingPatient.height),
                  recordedBy |-> updateRecordedBy,
                  changeType |-> "manual_edit"], t)
    IN  IF recordsHistory(patient)
        THEN IF Threw(h) THEN h ELSE Outcome(h.db, "ok", id)
        ELSE Outcome(upd, "ok", id)

\* Whether a row of another table still references patient id (ON DELETE no
\* action).
patientReferenced(d, id) ==
    \/ HistoryOf(d, id) /= {}
    \/ \E p \in DOMAIN d.healthPredictions : d.healthPredictions[p].patientId = id
    \/ \E i \in DOMAIN d.medicalImages : d.medicalImages[i].patientId = id
    \/ \E a \in DOMAIN d.appointments : d.appointments[a].patientId = id

\* DatabaseStorage.deletePatient: the history rows, then the patient row, as
\* two statements with no transaction around them.  The value is the number
\* of patient rows deleted (result.length); the method returns whether it is
\* above 0.
deletePatient(d, id) ==
    LET d1 == [d EXCEPT !.healthHistory =
                   Restrict(@, DOMAIN @ \ HistoryOf(d, id))]
    IN  IF id \in DOMAIN d1.patients /\ patientReferenced(d1, id)
        THEN Outcome(d1, "foreign_key_violation", 0)
        ELSE Outcome([d1 EXCEPT !.patients = Restrict(@, DOMAIN @ \ {id})],
                     "ok", Cardinality(DOMAIN d1.patients \cap {id}))

\* Whether a row of another table still references user id.
userReferenced(d, id) ==
    \/ \E p \in DOMAIN d.patients : d.patients[p].createdBy = id
    \/ \E h \in DOMAIN d.healthHistory : d.healthHistory[h].recordedBy = id
    \/ \E a \in DOMAIN d.auditLogs : d.auditLogs[a].userId = id
    \/ \E a \in DOMAIN d.appointments : d.appointments[a].staffId = id

\* DatabaseStorage.deleteUser; the value is result.rowCount.
deleteUser(d, id) ==
    IF id \in DOMAIN d.users /\ userReferenced(d, id)
    THEN Outcome(d, "foreign_key_violation", 0)
    ELSE Outcome([d EXCEPT !.users = Restrict(@, DOMAIN @ \ {id})],
                 "ok", Cardinality(DOMAIN d.users \cap {id}))

\* DatabaseStorage.createUser: is_active defaults to true; username is unique.
createUser(d, user) ==
    LET id == d.usersSeq + 1
        drawn == [d EXCEPT !.usersSeq = id]
        row == [username |-> user.username, password |-> user.password,
                role |-> user.role, isActive |-> TRUE]
    IN  IF \E u \in DOMAIN d.users : d.users[u].username = user.username
        THEN Outcome(drawn, "unique_violation", 0)
        ELSE Outcome([drawn EXCEPT !.users = @ @@ (id :> row)], "ok", id)

\* DatabaseStorage.createAuditLog, at time t.
createAuditLog(d, log, t) ==
    LET id == d.auditLogsSeq + 1
        drawn == [d EXCEPT !.auditLogsSeq = id]
        row == [userId |-> log.userId, action |-> log.action, targetType |-> log.targetType,
                targetId |-> log.targetId, createdAt |-> t]
    IN  IF log.userId /= Null /\ log.userId \notin DOMAIN d.users
        THEN Outcome(drawn, "foreign_key_violation", 0)
        ELSE Outcome([drawn EXCEPT !.auditLogs = @ @@ (id :> row)], "ok", id)

\* DatabaseStorage.createHealthPrediction
createHealthPrediction(d, prediction) ==
    LET id == d.healthPredictionsSeq + 1
        drawn == [d EXCEPT !.healthPredictionsSeq = id]
    IN  IF prediction.patientId /= Null /\ prediction.patientId \notin DOMAIN d.patients
        THEN Outcome(drawn, "foreign_key_violation", 0)
        ELSE Outcome([drawn EXCEPT !.healthPredictions =
                          @ @@ (id :> [patientId |-> prediction.patientId])],
                     "ok", id)

\* All orderings of the finite set S.
RECURSIVE Orderings(_)
Orderings(S) ==
    IF S = {} THEN {<<>>}
    ELSE UNION {{<<x>> \o s : s \in Orderings(S \ {x})} : x \in S}

\* DatabaseStorage.getHealthHistoryByPatient: a SELECT ... WHERE with its
\* ORDER BY commented out, so the rows come back in whatever order the
\* database produces.  The set of the results it may return (row ids).
getHealthHistoryByPatient(d, patientId) == Orderings(HistoryOf(d, patientId))

\* getAuditLogs with the ORDER BY left out.
getAuditLogs_unordered(d) == Orderings(DOMAIN d.auditLogs)

\* DatabaseStorage.getAuditLogs: SELECT ... ORDER BY created_at DESC.  The
\* set of the results it may return (row ids); rows of equal created_at come
\* in any order.
getAuditLogs(d) ==
    {rows \in Orderings(DOMAIN d.auditLogs) :
        \A i \in 1 .. (Len(rows) - 1) :
            d.auditLogs[rows[i]].createdAt >= d.auditLogs[rows[i + 1]].createdAt}

\* DatabaseStorage.getAllPatients: every row, ORDER BY created_at DESC.  The
\* rows of the model do not keep created_at, so every order of the rows is
\* taken as possible (row ids).
getAllPatients(d) == Orderings(DOMAIN d.patients)

\* getPatientsByCreator without its WHERE clause.
getPatientsByCreator_all(d, createdBy) == Orderings(DOMAIN d.patients)

\* DatabaseStorage.getPatientsByCreator: the rows WHERE created_by = createdBy,
\* in any order (row ids).
getPatientsByCreator(d, createdBy) ==
    Orderings({p \in DOMAIN d.patients : d.patients[p].createdBy = createdBy})

\* DatabaseStorage.getPatientStats: count(*) of patients, of the patients
\* WHERE blood_pressure_systolic >= 140 OR blood_sugar >= 200, and of
\* health_predictions.  newAdmissions (created_at >= today) is left out: the
\* rows of the model do not keep created_at.
getPatientStats(d) ==
    [totalPatients |-> Cardinality(DOMAIN d.patients),
     criticalCases |->
         Cardinality({p \in DOMAIN d.patients :
                         \/ d.patients[p].bloodPressureSystolic >= 140
                         \/ d.patients[p].bloodSugar >= 200}),
     aiPredictions |-> Cardinality(DOMAIN d.healthPredictions)]

\* getVitalStatus(systolic, diastolic, sugar) of DashboardOverview: the status
\* with the variant of its badge.
getVitalStatus(systolic, diastolic, sugar) ==
    IF systolic > 140 \/ diastolic > 90 \/ sugar > 200
    THEN [status |-> "Critical", variant |-> "destructive"]
    ELSE IF systolic > 120 \/ diastolic > 80 \/ sugar > 140
    THEN [status |-> "Warning", variant |-> "secondary"]
    ELSE [status |-> "Normal", variant |-> "default"]

\* The copy of getVitalStatus in AdminPanel.
AdminPanel_getVitalStatus(systolic, diastolic, sugar) ==
    IF systolic > 140 \/ diastolic > 90 \/ sugar > 200
    THEN [status |-> "Critical", variant |-> "destructive"]
    ELSE IF systolic > 120 \/ diastolic > 80 \/ sugar > 140
    THEN [status |-> "Warning", variant |-> "secondary"]
    ELSE [status |-> "Normal", variant |-> "default"]

\* The copy of getVitalStatus in PatientManagement.
PatientManagement_getVitalStatus(systolic, diastolic, sugar) ==
    IF systolic > 140 \/ diastolic > 90 \/ sugar > 200
    THEN [status |-> "Critical", variant |-> "destructive"]
    ELSE IF systolic > 120 \/ diastolic > 80 \/ sugar > 140
    THEN [status |-> "Warning", variant |-> "secondary"]
    ELSE [status |-> "Normal", variant |-> "default"]

\* The copy of getVitalStatus in PatientView, which adds the icon (here the
\* class of its colour).
PatientView_getVitalStatus(systolic, diastolic, sugar) ==
    IF systolic > 140 \/ diastolic > 90 \/ sugar > 200
    THEN [status |-> "Critical", variant |-> "destructive", icon |-> "text-red-500"]
    ELSE IF systolic > 120 \/ diastolic > 80 \/ sugar > 140
    THEN [status |-> "Warning", variant |-> "secondary", icon |-> "text-yellow-500"]
    ELSE [status |-> "Normal", variant |-> "default", icon |-> "text-green-500"]

\* A ladder that tests the Warning thresholds first.
PatientModal_getVitalStatus_warningFirst(systolic, diastolic, sugar) ==
    IF systolic > 120 \/ diastolic > 80 \/ sugar > 140
    THEN [status |-> "Warning", variant |-> "secondary"]
    ELSE IF systolic > 140 \/ diastolic > 90 \/ sugar > 200
    THEN [status |-> "Critical", variant |-> "destructive"]
    ELSE [status |-> "Normal", variant |-> "default"]

\* The copy of getVitalStatus in PatientModal.
PatientModal_getVitalStatus(systolic, diastolic, sugar) ==
    IF systolic > 140 \/ diastolic > 90 \/ sugar > 200
    THEN [status |-> "Critical", variant |-> "destructive"]
    ELSE IF systolic > 120 \/ diastolic > 80 \/ sugar > 140
    THEN [status |-> "Warning", variant |-> "secondary"]
    ELSE [status |-> "Normal", variant |-> "default"]

\* DatabaseStorage.createMedicalImage
createMedicalImage(d, image) ==
    LET id == d.medicalImagesSeq + 1
        drawn == [d EXCEPT !.medicalImagesSeq = id]
    IN  IF image.patientId /= Null /\ image.patientId \notin DOMAIN d.patients
        THEN Outcome(drawn, "foreign_key_violation", 0)
        ELSE Outcome([drawn EXCEPT !.medicalImages = @ @@ (id :> image)], "ok", id)

\* DatabaseStorage.createAppointment: patient_id and staff_id are NOT NULL and
\* reference patients and users; status defaults to 'scheduled'.
createAppointment(d, appointment) ==
    LET id == d.appointmentsSeq + 1
        drawn == [d EXCEPT !.appointmentsSeq = id]
        row == [patientId |-> Col(appointment, "patientId"),
                staffId |-> Col(appointment, "staffId"),
                status |-> IF "status" \in DOMAIN appointment THEN appointment.status
                           ELSE "scheduled"]
    IN  IF row.patientId = Null \/ row.staffId = Null
        THEN Outcome(drawn, "not_null_violation", 0)
        ELSE IF row.patientId \notin DOMAIN d.patients \/ row.staffId \notin DOMAIN d.users
        THEN Outcome(drawn, "foreign_key_violation", 0)
        ELSE Outcome([drawn EXCEPT !.appointments = @ @@ (id :> row)], "ok", id)

\* DatabaseStorage.updateAppointment: the id of the row updated, 0 for
\* undefined.
updateAppointment(d, id, appointment) ==
    IF id \notin DOMAIN d.appointments THEN Outcome(d, "ok", 0)
    ELSE LET row == [f \in DOMAIN d.appointments[id] |->
                        IF f \in DOMAIN appointment THEN appointment[f]
                        ELSE d.appointments[id][f]]
         IN  IF row.patientId \notin DOMAIN d.patients \/ row.staffId \notin DOMAIN d.users
             THEN Outcome(d, "foreign_key_violation", 0)
             ELSE Outcome([d EXCEPT !.appointments[id] = row], "ok", id)

\* DatabaseStorage.deleteAppointment: rowCount > 0 as 1 or 0.
deleteAppointment(d, id) ==
    IF id \in DOMAIN d.appointments
    THEN Outcome([d EXCEPT !.appointments = Restrict(@, DOMAIN @ \ {id})], "ok", 1)
    ELSE Outcome(d, "ok", 0)

\* ------------------------------------------------------------- ai-models.ts
\* A JavaScript number that may have a fractional part is kept as its count
\* of halves: the risks are whole numbers, and their sum is divided by 2.
Halves(n) == 2 * n

Min(a, b) == IF a < b THEN a ELSE b

Max(a, b) == IF a > b THEN a ELSE b

\* array.push(item) when condition holds
pushIf(condition, item) == IF condition THEN <<item>> ELSE <<>>

\* A fallback that caps the diabetes risk at 50 before it computes the score.
fallbackHealthPrediction_clampFirst(input) ==
    LET cardiovascularRisk ==
            Min(100,
                (IF input.systolicBP > 140 \/ input.diastolicBP > 90 THEN 30 ELSE 0)
                + (IF input.age > 65 THEN 20 ELSE 0)
                + (IF input.gender = "male" THEN 10 ELSE 0)
                + (IF input.bmi > 30 THEN 15 ELSE 0)
                + (IF input.bloodSugar > 200 THEN 25 ELSE 0))
        diabetesRisk ==
            Min(50,
                (IF input.bloodSugar > 126 THEN 40 ELSE 0)
                + (IF input.bmi > 30 THEN 25 ELSE 0)
                + (IF input.age > 45 THEN 15 ELSE 0)
                + (IF input.systolicBP > 140 THEN 10 ELSE 0))
        overallHealthScore == Max(Halves(0), Halves(100) - (cardiovascularRisk + diabetesRisk))
    IN  [cardiovascularRisk |-> cardiovascularRisk,
         diabetesRisk |-> diabetesRisk,
         overallHealthScore |-> overallHealthScore,
         recommendations |->
             pushIf(input.systolicBP > 140, "Monitor blood pressure regularly")
             \o pushIf(input.bloodSugar > 126, "Consult endocrinologist for diabetes management")
             \o pushIf(input.bmi > 30, "Consider weight management program")
             \o pushIf(overallHealthScore < Halves(70), "Schedule comprehensive health checkup")]

\* PythonMLInterface.fallbackHealthPrediction; overallHealthScore is in halves:
\* Halves(100) - (cardiovascularRisk + diabetesRisk) is twice
\* 100 - (cardiovascularRisk + diabetesRisk) / 2.
fallbackHealthPrediction(input) ==
    LET cardiovascularRisk ==
            (IF input.systolicBP > 140 \/ input.diastolicBP > 90 THEN 30 ELSE 0)
            + (IF input.age > 65 THEN 20 ELSE 0)
            + (IF input.gender = "male" THEN 10 ELSE 0)
            + (IF input.bmi > 30 THEN 15 ELSE 0)
            + (IF input.bloodSugar > 200 THEN 25 ELSE 0)
        diabetesRisk ==
            (IF input.bloodSugar > 126 THEN 40 ELSE 0)
            + (IF input.bmi > 30 THEN 25 ELSE 0)
            + (IF input.age > 45 THEN 15 ELSE 0)
            + (IF input.systolicBP > 140 THEN 10 ELSE 0)
        overallHealthScore == Max(Halves(0), Halves(100) - (cardiovascularRisk + diabetesRisk))
    IN  [cardiovascularRisk |-> Min(100, cardiovascularRisk),
         diabetesRisk |-> Min(100, diabetesRisk),
         overallHealthScore |-> overallHealthScore,
         recommendations |->
             pushIf(input.systolicBP > 140, "Monitor blood pressure regularly")
             \o pushIf(input.bloodSugar > 126, "Consult endocrinologist for diabetes management")
             \o pushIf(input.bmi > 30, "Consider weight management program")
             \o pushIf(overallHealthScore < Halves(70), "Schedule comprehensive health checkup")]

\* Values of Math.random(), in hundredths: below, at and above the 0.2 of
\* fallbackImageAnalysis.
MathRandom == {0, 19, 20, 99}

\* PythonMLInterface.fallbackImageAnalysis with the two values it draws from
\* Math.random(), in hundredths; confidence (0.85 + random * 0.15) is in
\* ten-thousandths.
fallbackImageAnalysis(filename, analysisType, random1, random2) ==
    LET confidence == 8500 + random1 * 15
        abnormalityDetected == random2 < 20
    IN  [abnormalityDetected |-> abnormalityDetected,
         confidence |-> confidence,
         findings |->
             IF abnormalityDetected
             THEN CASE analysisType = "xray" -> "Mild opacity detected in lower lung field."
                    [] analysisType = "ct" -> "Small nodule detected in lung."
                    [] analysisType = "mri" -> "Minor signal abnormality in brain tissue."
                    [] OTHER -> "Abnormal tissue pattern detected."
             ELSE "No significant abnormalities detected.",
         recommendations |->
             IF abnormalityDetected
             THEN CASE analysisType = "xray" ->
                         <<"Recommend follow-up CT scan", "Consider antibiotic treatment",
                           "Monitor symptoms closely">>
                    [] analysisType = "ct" ->
                         <<"Schedule PET scan", "Consult oncologist", "Follow-up in 3 months">>
                    [] analysisType = "mri" ->
                         <<"Repeat MRI in 6 months", "Neurological consultation",
                           "Monitor for symptoms">>
                    [] OTHER -> <<"Consult specialist", "Additional imaging recommended">>
             ELSE <<"Continue routine monitoring", "No immediate action required">>]

\* --------------------------------------------------------- MemStorage
\* The sample patients of initializeDefaultData.  The clock reads 0 when the
\* instance is constructed.  weight and height (80.5, 65.2, ...) are reals
\* that no method of MemStorage reads; the rows are kept without them.
MemSeedPatients ==
    LET row(patientId, name, sugar, sys, dia, createdBy) ==
            [patientId |-> patientId, name |-> name, bloodSugar |-> sugar,
             bloodPressureSystolic |-> sys, bloodPressureDiastolic |-> dia,
             createdBy |-> createdBy, createdAt |-> 0, updatedAt |-> 0,
             isActive |-> TRUE]
        pt == <<"P", "T", "-", "2", "0", "2", "4", "-", "0", "0">>
    IN  (1 :> row(pt \o <<"1">>, "John Smith", 120, 130, 85, 1))
        @@ (2 :> row(pt \o <<"2">>, "Mary Johnson", 95, 125, 80, 2))
        @@ (3 :> row(pt \o <<"3">>, "Robert Davis", 180, 150, 95, 2))

\* The sample history: (patient, daysAgo, bloodSugar, systolic, diastolic) in
\* the order of the createHealthHistoryEntry calls.
MemSeedReadings ==
    <<  <<1, 150, 140, 140, 90>>, <<1, 120, 135, 138, 88>>, <<1, 90, 130, 135, 87>>,
        <<1, 60, 125, 132, 86>>, <<1, 30, 122, 130, 85>>, <<1, 0, 120, 130, 85>>,
        <<2, 150, 100, 128, 82>>, <<2, 120, 98, 127, 81>>, <<2, 90, 96, 126, 80>>,
        <<2, 60, 95, 125, 80>>, <<2, 30, 95, 125, 80>>, <<2, 0, 95, 125, 80>>,
        <<3, 150, 160, 135, 85>>, <<3, 120, 165, 140, 88>>, <<3, 90, 170, 145, 90>>,
        <<3, 60, 175, 148, 93>>, <<3, 30, 178, 150, 94>>, <<3, 0, 180, 150, 95>>  >>

\* createHealthHistoryEntry: recorded by the staff user, dated daysAgo days
\* before the construction (a day is longer than any run of the clock).
createHealthHistoryEntry(r) ==
    [patientId |-> r[1], recordedBy |-> 2, timestamp |-> 0 - r[2], bloodSugar |-> r[3],
     bloodPressureSystolic |-> r[4], bloodPressureDiastolic |-> r[5],
     changeType |-> "routine_checkup"]

\* new MemStorage(): the state initializeDefaultData leaves.
initializeDefaultData ==
    [users |-> SeedUsers,
     patients |-> MemSeedPatients,
     healthPredictions |-> (1 :> [patientId |-> 1]),
     healthHistories |->
         [h \in DOMAIN MemSeedReadings |-> createHealthHistoryEntry(MemSeedReadings[h])],
     currentUserId |-> Cardinality(DOMAIN SeedUsers) + 1,
     currentPatientId |-> Cardinality(DOMAIN MemSeedPatients) + 1,
     currentHealthPredictionId |-> 2,
     currentHealthHistoryId |-> Len(MemSeedReadings) + 1,
     patientIdCounter |-> 4,
     auditLogs |-> Empty,
     currentAuditLogId |-> 1]

RECURSIVE padStart(_, _, _)
\* s.padStart(n, c)
padStart(s, n, c) == IF Len(s) >= n THEN s ELSE padStart(<<c>> \o s, n, c)

\* `PT-2024-${String(n).padStart(3, '0')}`
memPatientId(n) ==
    <<"P", "T", "-", "2", "0", "2", "4", "-">> \o padStart(NumberToString(n), 3, "0")

\* MemStorage.createHealthHistory, at time t.
Mem_createHealthHistory(m, insertHistory, t) ==
    LET id == m.currentHealthHistoryId
        history == [timestamp |-> t] @@ insertHistory
    IN  Outcome([m EXCEPT !.currentHealthHistoryId = id + 1,
                          !.healthHistories = (id :> history) @@ @],
                "ok", id)

\* MemStorage.createPatient, at time t.  The patientId of the argument is
\* overwritten by the generated one; createdBy is stored as given.
Mem_createPatient(m, insertPatientArg, t) ==
    LET id == m.currentPatientId
        patient == [patientId |-> memPatientId(m.patientIdCounter), createdAt |-> t,
                    updatedAt |-> t, isActive |-> TRUE] @@ insertPatientArg
    IN  Outcome([m EXCEPT !.currentPatientId = id + 1,
                          !.patientIdCounter = @ + 1,
                          !.patients = (id :> patient) @@ @],
                "ok", id)

\* MemStorage.updatePatient, at time t; recordedBy is Undefined when the
\* caller leaves it out.
Mem_updatePatient(m, id, updates, recordedBy, t) ==
    IF id \notin DOMAIN m.patients THEN Outcome(m, "undefined", 0)
    ELSE
      LET patient == m.patients[id]
          updatedPatient == [updatedAt |-> t] @@ updates @@ patient
          m1 == [m EXCEPT !.patients = (id :> updatedPatient) @@ @]
          o == Mem_createHealthHistory(m1,
                   [patientId |-> id,
                    recordedBy |-> recordedBy,
                    bloodSugar |-> OrElse(Prop(updates, "bloodSugar"), patient.bloodSugar),
                    bloodPressureSystolic |->
                        OrElse(Prop(updates, "bloodPressureSystolic"),
                               patient.bloodPressureSystolic),
                    bloodPressureDiastolic |->
                        OrElse(Prop(updates, "bloodPressureDiastolic"),
                               patient.bloodPressureDiastolic),
                    changeType |-> "manual_edit"], t)
      IN  IF /\ Truthy(recordedBy)
             /\ \/ Truthy(Prop(updates, "bloodSugar"))
                \/ Truthy(Prop(updates, "bloodPressureSystolic"))
                \/ Truthy(Prop(updates, "bloodPressureDiastolic"))
          THEN Outcome(o.db, "ok", id)
          ELSE Outcome(m1, "ok", id)

\* MemStorage.createAuditLog, at time t.
Mem_createAuditLog(m, logData, t) ==
    LET id == m.currentAuditLogId
        log == [createdAt |-> t] @@ logData
    IN  Outcome([m EXCEPT !.currentAuditLogId = id + 1,
                          !.auditLogs = (id :> log) @@ @],
                "ok", id)

RECURSIVE sortByCreatedAtDesc(_, _)
\* Array.from(map.values()).sort((a, b) => b.createdAt - a.createdAt) over the
\* rows S of the map logs: the sort is stable and the map iterates in
\* insertion order, which is the order of the ids.
sortByCreatedAtDesc(logs, S) ==
    IF S = {} THEN <<>>
    ELSE LET first == CHOOSE a \in S :
                 \A b \in S : \/ logs[a].createdAt > logs[b].createdAt
                               \/ (logs[a].createdAt = logs[b].createdAt /\ a <= b)
         IN  <<first>> \o sortByCreatedAtDesc(logs, S \ {first})

\* MemStorage.getAuditLogs (row ids).
Mem_getAuditLogs(m) == sortByCreatedAtDesc(m.auditLogs, DOMAIN m.auditLogs)

\* MemStorage.deletePatient: this.patients.delete(id); the value is 1 when the
\* key was there.
Mem_deletePatient(m, id) ==
    Outcome([m EXCEPT !.patients = Restrict(@, DOMAIN @ \ {id})], "ok",
            IF id \in DOMAIN m.patients THEN 1 ELSE 0)

\* MemStorage.getPatientStats (newAdmissions left out as in getPatientStats).
Mem_getPatientStats(m) ==
    [totalPatients |-> Cardinality(DOMAIN m.patients),
     criticalCases |->
         Cardinality({p \in DOMAIN m.patients :
                         \/ m.patients[p].bloodPressureSystolic > 140
                         \/ m.patients[p].bloodSugar > 200}),
     aiPredictions |-> Cardinality(DOMAIN m.healthPredictions)]

\* ------------------------------------------------------------------ inputs
\* Request bodies for a new patient (InsertPatient); the optional weight and
\* height are left out.
NewPatientInputs ==
    {[name |-> "A", bloodSugar |-> 95, bloodPressureSystolic |-> 118,
      bloodPressureDiastolic |-> 76]}

\* Update payloads (Partial<InsertPatient>): a vitals field raised, a vitals
\* field set to 0, a vitals field re-submitted unchanged, a field that is no
\* vitals field, and an optional vitals field.
UpdateInputs ==
    {[bloodSugar |-> 210],
     [bloodSugar |-> 0],
     [bloodSugar |-> 95],
     [name |-> "B"],
     [weight |-> 70]}

\* The payloads used where the other tables are exercised.
FewUpdateInputs == {[bloodSugar |-> 210], [bloodSugar |-> 0]}

\* User ids a caller may pass: the seeded ones and one that is in no table.
CallerIds == 1 .. (Cardinality(DOMAIN SeedUsers) + 1)

\* The createdBy a new patient is given: the staff account, or an id that is
\* in no table.
Creators == {2, Cardinality(DOMAIN SeedUsers) + 1}

\* The users deleteUser is tried on: the two accounts that patients and
\* history rows reference, and an id that is in no table.
DeletedUserIds == {updateRecordedBy, 2, Cardinality(DOMAIN SeedUsers) + 1}

\* Patient ids a caller may pass: every id the sequence can have handed out.
PatientIds == 1 .. MaxPatientSerial

\* The record of a call: the method, its id argument, its object argument,
\* how it ended, the number it returned and the rows it returned.
\* by is the user id of the principal of a request, 0 for a direct call.
NoCall ==
    [op |-> "none", by |-> 0, id |-> 0, arg |-> Empty, status |-> "ok", val |-> 0,
     rows |-> <<>>]

Call(op, id, arg, o) ==
    [op |-> op, by |-> 0, id |-> id, arg |-> arg, status |-> o.status, val |-> o.val,
     rows |-> <<>>]

\* A boolean return computed as `count > 0`.
returnedTrue(call) == call.status = "ok" /\ call.val > 0

returnedFalse(call) == call.status = "ok" /\ call.val = 0

\* ------------------------------------------------------------------ actions
Init ==
    /\ users = SeedUsers
    /\ patients = Empty
    /\ healthHistory = Empty
    /\ healthPredictions = Empty
    /\ patientsSeq = 0
    /\ healthHistorySeq = 0
    /\ healthPredictionsSeq = 0
    /\ auditLogs = Empty
    /\ auditLogsSeq = 0
    /\ usersSeq = Cardinality(DOMAIN SeedUsers)
    /\ medicalImages = Empty
    /\ medicalImagesSeq = 0
    /\ appointments = Empty
    /\ appointmentsSeq = 0
    /\ sessions = Empty
    /\ sessionsSeq = 0
    /\ mem = initializeDefaultData
    /\ now = 0
    /\ calls = Empty
    /\ last = NoCall

\* storage.createPatient({patientId: `PT-${Date.now()}`, ...patientData, createdBy})
CreatePatient(body, createdBy) ==
    /\ patientsSeq < MaxPatientSerial
    /\ healthHistorySeq < MaxHistorySerial
    /\ LET patient == [createdBy |-> createdBy] @@ body
                       @@ [patientId |-> generatedPatientId(now)]
           o == createPatient(DB, patient, now)
       IN  /\ Commit(o.db)
           /\ last' = Call("createPatient", o.val, patient, o)
    /\ UNCHANGED <<sessions, sessionsSeq, mem, now, calls>>

\* storage.updatePatient(id, updates)
UpdatePatient(id, updates) ==
    /\ healthHistorySeq < MaxHistorySerial
    /\ LET o == updatePatient(DB, id, updates, now)
       IN  /\ Commit(o.db)
           /\ last' = Call("updatePatient", id, updates, o)
    /\ UNCHANGED <<sessions, sessionsSeq, mem, now, calls>>

\* storage.deletePatient(id)
DeletePatient(id) ==
    /\ LET o == deletePatient(DB, id)
       IN  /\ Commit(o.db)
           /\ last' = Call("deletePatient", id, Empty, o)
    /\ UNCHANGED <<sessions, sessionsSeq, mem, now, calls>>

\* storage.deleteUser(id)
DeleteUser(id) ==
    /\ LET o == deleteUser(DB, id)
       IN  /\ Commit(o.db)
           /\ last' = Call("deleteUser", id, Empty, o)
    /\ UNCHANGED <<sessions, sessionsSeq, mem, now, calls>>

\* storage.createHealthPrediction({patientId, ...})
CreateHealthPrediction(patientId) ==
    /\ healthPredictionsSeq < MaxPredictionSerial
    /\ LET o == createHealthPrediction(DB, [patientId |-> patientId])
       IN  /\ Commit(o.db)
           /\ last' = Call("createHealthPrediction", patientId, Empty, o)
    /\ UNCHANGED <<sessions, sessionsSeq, mem, now, calls>>

\* storage.getHealthHistoryByPatient(patientId)
GetHealthHistoryByPatient(patientId) ==
    /\ \E rows \in getHealthHistoryByPatient(DB, patientId) :
           last' = [op |-> "getHealthHistoryByPatient", by |-> 0, id |-> patientId,
                    arg |-> Empty, status |-> "ok", val |-> Len(rows), rows |-> rows]
    /\ UNCHANGED <<dbVars, sessions, sessionsSeq, mem, now, calls>>

\* Time passes.
Tick ==
    /\ now < MaxClock
    /\ now' = now + 1
    /\ UNCHANGED <<dbVars, sessions, sessionsSeq, mem, calls, last>>

\* The patients the MemStorage calls are made on: a sample patient and the
\* first patient created.
MemPatientIds == {1, Cardinality(DOMAIN MemSeedPatients) + 1}

\* memStorage.createPatient({patientId, ...patientData, createdBy})
Mem_CreatePatient(body, createdBy) ==
    /\ mem.currentPatientId <= MaxMemPatientId
    /\ LET patient == [createdBy |-> createdBy] @@ body
                       @@ [patientId |-> generatedPatientId(now)]
           o == Mem_createPatient(mem, patient, now)
       IN  /\ mem' = o.db
           /\ last' = Call("MemStorage.createPatient", o.val, patient, o)
    /\ UNCHANGED <<dbVars, sessions, sessionsSeq, now, calls>>

\* memStorage.updatePatient(id, updates, recordedBy)
Mem_UpdatePatient(id, updates, recordedBy) ==
    /\ mem.currentHealthHistoryId <= MaxMemHistoryId
    /\ LET o == Mem_updatePatient(mem, id, updates, recordedBy, now)
       IN  /\ mem' = o.db
           /\ last' = Call("MemStorage.updatePatient", id, updates, o)
    /\ UNCHANGED <<dbVars, sessions, sessionsSeq, now, calls>>

\* memStorage.deletePatient(id)
Mem_DeletePatient(id) ==
    /\ LET o == Mem_deletePatient(mem, id)
       IN  /\ mem' = o.db
           /\ last' = Call("MemStorage.deletePatient", id, Empty, o)
    /\ UNCHANGED <<dbVars, sessions, sessionsSeq, now, calls>>

\* createPatient, updatePatient and deletePatient of MemStorage, next to
\* createPatient of DatabaseStorage.
NextMem ==
    \/ \E body \in NewPatientInputs, createdBy \in Creators :
           Mem_CreatePatient(body, createdBy)
    \/ \E id \in MemPatientIds, updates \in FewUpdateInputs, recordedBy \in {Undefined, 2} :
           Mem_UpdatePatient(id, updates, recordedBy)
    \/ \E id \in MemPatientIds : Mem_DeletePatient(id)
    \/ \E body \in NewPatientInputs, createdBy \in Creators : CreatePatient(body, createdBy)
    \/ Tick

SpecMem == Init /\ [][NextMem]_vars

\* ------------------------------------------------------------------ routes
\* The fields insertPatientSchema picks; parse() drops every other key.
InsertPatientFields ==
    {"name", "bloodSugar", "bloodPressureSystolic", "bloodPressureDiastolic", "weight",
     "height"}

\* parse() that lets unknown keys through (a passthrough schema).
parsePartialPatient_passthrough(body) == body

\* insertPatientSchema.partial().parse(body)
parsePartialPatient(body) == Restrict(body, DOMAIN body \cap InsertPatientFields)

\* Whether insertPatientSchema.parse(body) accepts the body: the required
\* fields are there.
parsesAsPatient(body) == (PatientNotNull \ {"patientId"}) \subseteq DOMAIN body

\* authenticateUser with the password comparison left out.
authenticateUser_anyPassword(d, username, password) ==
    LET found == {u \in DOMAIN d.users : d.users[u].username = username}
        u == CHOOSE x \in found : TRUE
    IN  IF found = {} THEN 0
        ELSE IF ~d.users[u].isActive THEN 0
        ELSE u

\* authenticateUser(credentials): the id of the user, 0 for null.
authenticateUser(d, username, password) ==
    LET found == {u \in DOMAIN d.users : d.users[u].username = username}
        u == CHOOSE x \in found : TRUE
    IN  IF found = {} THEN 0
        ELSE IF ~d.users[u].isActive THEN 0
        ELSE IF d.users[u].password /= password THEN 0
        ELSE u

\* The gate with the role check dropped.
gate_authOnly(token, roles) == IF token \notin DOMAIN sessions THEN 401 ELSE 0

\* requireAuth then requireRole(roles) for a request bearing token: the status
\* the middleware answers with, 0 when the handler runs.
gate(token, roles) ==
    IF token \notin DOMAIN sessions THEN 401
    ELSE IF sessions[token].role \notin roles THEN 403
    ELSE 0

\* The record of a request: its principal, target, body, the outcome of the
\* storage call that decided it, and the HTTP status.
Request(op, by, id, arg, status, code) ==
    [op |-> op, by |-> by, id |-> id, arg |-> arg, status |-> status, val |-> code,
     rows |-> <<>>]

\* Tokens a request may bear: 0 stands for none or an unknown one.
Tokens == 0 .. MaxSessions

\* Login attempts: the staff and administrator accounts, and a wrong password.
LoginInputs ==
    {<<"admin", "admin123">>, <<"staff", "staff123">>, <<"staff", "admin123">>}

\* POST /api/login
Login(username, password) ==
    /\ sessionsSeq < MaxSessions
    /\ LET u == authenticateUser(DB, username, password)
           token == sessionsSeq + 1
       IN  IF u = 0
           THEN /\ last' = Request("POST /api/login", 0, 0, Empty, "invalid_credentials", 401)
                /\ UNCHANGED <<sessions, sessionsSeq>>
           ELSE /\ sessions' = sessions @@
                        (token :> [id |-> u, username |-> users[u].username,
                                   role |-> users[u].role])
                /\ sessionsSeq' = token
                /\ last' = Request("POST /api/login", u, token, Empty, "ok", 200)
    /\ UNCHANGED <<dbVars, mem, now, calls>>

\* POST /api/patients
PostPatients(token, body) ==
    /\ patientsSeq < MaxPatientSerial
    /\ healthHistorySeq < MaxHistorySerial
    /\ auditLogsSeq < MaxAuditSerial
    /\ LET op == "POST /api/patients"
           g == gate(token, {"staff", "admin"})
           user == sessions[token]
           patient == [createdBy |-> user.id] @@ parsePartialPatient(body)
                       @@ [patientId |-> generatedPatientId(now)]
           c == createPatient(DB, patient, now)
           a == createAuditLog(c.db,
                    [userId |-> user.id, action |-> "CREATE_PATIENT",
                     targetType |-> "patient",
                     targetId |-> c.db.patients[c.val].patientId], now)
       IN  IF g /= 0
           THEN UNCHANGED dbVars /\ last' = Request(op, 0, 0, body, "rejected", g)
           ELSE IF ~parsesAsPatient(body)
           THEN UNCHANGED dbVars /\ last' = Request(op, user.id, 0, body, "invalid", 400)
           ELSE IF Threw(c)
           THEN Commit(c.db) /\ last' = Request(op, user.id, 0, body, c.status, 400)
           ELSE IF Threw(a)
           THEN Commit(a.db) /\ last' = Request(op, user.id, c.val, body, a.status, 400)
           ELSE Commit(a.db) /\ last' = Request(op, user.id, c.val, body, "ok", 200)
    /\ UNCHANGED <<sessions, sessionsSeq, mem, now, calls>>

\* PUT /api/patients/:id.  The handler passes req.user.id as a third argument,
\* for which DatabaseStorage.updatePatient has no parameter.
PutPatient(token, id, body) ==
    /\ healthHistorySeq < MaxHistorySerial
    /\ auditLogsSeq < MaxAuditSerial
    /\ LET op == "PUT /api/patients/:id"
           g == gate(token, {"admin", "staff"})
           user == sessions[token]
           updates == parsePartialPatient(body)
           u == updatePatient(DB, id, updates, now)
           a == createAuditLog(u.db,
                    [userId |-> user.id, action |-> "UPDATE_PATIENT",
                     targetType |-> "patient",
                     targetId |-> u.db.patients[id].patientId], now)
       IN  IF g /= 0
           THEN UNCHANGED dbVars /\ last' = Request(op, 0, id, body, "rejected", g)
           ELSE IF u.status = "undefined"
           THEN Commit(u.db) /\ last' = Request(op, user.id, id, body, u.status, 404)
           ELSE IF Threw(u)
           THEN Commit(u.db) /\ last' = Request(op, user.id, id, body, u.status, 400)
           ELSE IF Threw(a)
           THEN Commit(a.db) /\ last' = Request(op, user.id, id, body, a.status, 400)
           ELSE Commit(a.db) /\ last' = Request(op, user.id, id, body, "ok", 200)
    /\ UNCHANGED <<sessions, sessionsSeq, mem, now, calls>>

\* DELETE /api/patients/:id
DeletePatientRoute(token, id) ==
    /\ auditLogsSeq < MaxAuditSerial
    /\ LET op == "DELETE /api/patients/:id"
           g == gate(token, {"admin"})
           user == sessions[token]
           o == deletePatient(DB, id)
           a == createAuditLog(o.db,
                    [userId |-> user.id, action |-> "DELETE_PATIENT",
                     targetType |-> "patient",
                     targetId |-> patients[id].patientId], now)
       IN  IF g /= 0
           THEN UNCHANGED dbVars /\ last' = Request(op, 0, id, Empty, "rejected", g)
           ELSE IF id \notin DOMAIN patients
           THEN UNCHANGED dbVars /\ last' = Request(op, user.id, id, Empty, "undefined", 404)
           ELSE IF Threw(o) \/ ~(o.val > 0)
           THEN Commit(o.db) /\ last' = Request(op, user.id, id, Empty, o.status, 500)
           ELSE IF Threw(a)
           THEN Commit(a.db) /\ last' = Request(op, user.id, id, Empty, a.status, 500)
           ELSE Commit(a.db) /\ last' = Request(op, user.id, id, Empty, "ok", 200)
    /\ UNCHANGED <<sessions, sessionsSeq, mem, now, calls>>

\* The roles POST /api/admin/users accepts: z.enum(['staff', 'admin', 'patient']).
UserRoles == {"staff", "admin", "patient"}

\* Whether the schema of POST /api/admin/users accepts the body.  The bodies
\* tried have a username, a name and a password of the minimum lengths, so
\* the role decides.
parsesAsUser(body) ==
    /\ {"username", "password", "role"} \subseteq DOMAIN body
    /\ body.role \in UserRoles

\* POST /api/admin/users
PostAdminUsers(token, body) ==
    /\ usersSeq < MaxUserSerial
    /\ auditLogsSeq < MaxAuditSerial
    /\ LET op == "POST /api/admin/users"
           g == gate(token, {"admin"})
           user == sessions[token]
           c == createUser(DB, body)
           a == createAuditLog(c.db,
                    [userId |-> user.id, action |-> "CREATE_USER", targetType |-> "user",
                     targetId |-> NumberToString(c.val)], now)
       IN  IF g /= 0
           THEN UNCHANGED dbVars /\ last' = Request(op, 0, 0, body, "rejected", g)
           ELSE IF ~parsesAsUser(body)
           THEN UNCHANGED dbVars /\ last' = Request(op, user.id, 0, body, "invalid", 400)
           ELSE IF Threw(c)
           THEN Commit(c.db) /\ last' = Request(op, user.id, 0, body, c.status, 400)
           ELSE IF Threw(a)
           THEN Commit(a.db) /\ last' = Request(op, user.id, c.val, body, a.status, 400)
           ELSE Commit(a.db) /\ last' = Request(op, user.id, c.val, body, "ok", 200)
    /\ UNCHANGED <<sessions, sessionsSeq, mem, now, calls>>

\* DELETE /api/admin/users/:id
DeleteAdminUser(token, id) ==
    /\ auditLogsSeq < MaxAuditSerial
    /\ LET op == "DELETE /api/admin/users/:id"
           g == gate(token, {"admin"})
           user == sessions[token]
           o == deleteUser(DB, id)
           a == createAuditLog(o.db,
                    [userId |-> user.id, action |-> "DELETE_USER", targetType |-> "user",
                     targetId |-> NumberToString(id)], now)
       IN  IF g /= 0
           THEN UNCHANGED dbVars /\ last' = Request(op, 0, id, Empty, "rejected", g)
           ELSE IF Threw(o)
           THEN Commit(o.db) /\ last' = Request(op, user.id, id, Empty, o.status, 500)
           ELSE IF ~(o.val > 0)
           THEN Commit(o.db) /\ last' = Request(op, user.id, id, Empty, "undefined", 404)
           ELSE IF Threw(a)
           THEN Commit(a.db) /\ last' = Request(op, user.id, id, Empty, a.status, 500)
           ELSE Commit(a.db) /\ last' = Request(op, user.id, id, Empty, "ok", 200)
    /\ UNCHANGED <<sessions, sessionsSeq, mem, now, calls>>

\* Bodies for POST /api/admin/users: a new staff account, and a role that is
\* not in the enum.
NewUserInputs ==
    {[username |-> "nurse", password |-> "nurse123", role |-> "staff"],
     [username |-> "nurse", password |-> "nurse123", role |-> "doctor"]}

\* The audited routes of patients and users.
NextAudit ==
    \/ \E c \in {<<"admin", "admin123">>, <<"staff", "staff123">>} : Login(c[1], c[2])
    \/ \E token \in Tokens, body \in NewPatientInputs : PostPatients(token, body)
    \/ \E token \in Tokens, id \in PatientIds : PutPatient(token, id, [bloodSugar |-> 210])
    \/ \E token \in Tokens, id \in PatientIds : DeletePatientRoute(token, id)
    \/ \E token \in Tokens, body \in NewUserInputs : PostAdminUsers(token, body)
    \/ \E token \in Tokens, id \in DeletedUserIds : DeleteAdminUser(token, id)
    \/ Tick

SpecAudit == Init /\ [][NextAudit]_vars

\* The record of a query: the rows it returned.
Query(op, by, status, code, rows) ==
    [op |-> op, by |-> by, id |-> 0, arg |-> Empty, status |-> status, val |-> code,
     rows |-> rows]

\* GET /api/admin/audit-logs
GetAuditLogsRoute(token) ==
    /\ LET op == "GET /api/admin/audit-logs"
           g == gate(token, {"admin"})
       IN  IF g /= 0
           THEN last' = Query(op, 0, "rejected", g, <<>>)
           ELSE \E rows \in getAuditLogs(DB) :
                    last' = Query(op, sessions[token].id, "ok", 200, rows)
    /\ UNCHANGED <<dbVars, sessions, sessionsSeq, mem, now, calls>>

\* memStorage.createAuditLog({userId, action, ...})
Mem_CreateAuditLog(userId, action) ==
    /\ mem.currentAuditLogId <= MaxMemAuditId
    /\ LET o == Mem_createAuditLog(mem, [userId |-> userId, action |-> action], now)
       IN  /\ mem' = o.db
           /\ last' = Call("MemStorage.createAuditLog", o.val, Empty, o)
    /\ UNCHANGED <<dbVars, sessions, sessionsSeq, now, calls>>

\* memStorage.getAuditLogs()
Mem_GetAuditLogs ==
    /\ last' = Query("MemStorage.getAuditLogs", 0, "ok", 0, Mem_getAuditLogs(mem))
    /\ UNCHANGED <<dbVars, sessions, sessionsSeq, mem, now, calls>>

\* The administrator's routes that write and read the audit log, the deletes
\* that could take entries with them, and the audit log of MemStorage.
NextAuditLog ==
    \/ Login("admin", "admin123")
    \/ \E token \in Tokens :
           PostAdminUsers(token,
               [username |-> "nurse", password |-> "nurse123", role |-> "staff"])
    \/ \E token \in Tokens, id \in DeletedUserIds : DeleteAdminUser(token, id)
    \/ \E token \in Tokens : GetAuditLogsRoute(token)
    \/ Mem_CreateAuditLog(1, "CREATE_USER")
    \/ Mem_GetAuditLogs
    \/ Tick

SpecAuditLog == Init /\ [][NextAuditLog]_vars

\* Request bodies for POST /api/patients: a valid one and one without the
\* required name.
PostInputs ==
    NewPatientInputs \union
        {[bloodSugar |-> 95, bloodPressureSystolic |-> 118, bloodPressureDiastolic |-> 76]}

\* The patient routes behind the login.
NextHttp ==
    \/ \E c \in LoginInputs : Login(c[1], c[2])
    \/ \E token \in Tokens, body \in PostInputs : PostPatients(token, body)
    \/ \E token \in Tokens, id \in PatientIds, body \in FewUpdateInputs :
           PutPatient(token, id, body)
    \/ Tick

SpecHttp == Init /\ [][NextHttp]_vars

\* PUT bodies that name patientId, alone and next to a vitals field.
IdentityInputs ==
    {[patientId |-> <<"P", "T", "-", "9">>],
     [patientId |-> <<"P", "T", "-", "9">>, bloodSugar |-> 210]}

\* The ways the program updates a patient: the PUT route, and updatePatient
\* called with a payload of its parameter type.
NextIdentity ==
    \/ Login("staff", "staff123")
    \/ \E token \in Tokens, body \in NewPatientInputs : PostPatients(token, body)
    \/ \E token \in Tokens, id \in PatientIds, body \in IdentityInputs :
           PutPatient(token, id, body)
    \/ \E id \in PatientIds, updates \in FewUpdateInputs : UpdatePatient(id, updates)
    \/ Tick

SpecIdentity == Init /\ [][NextIdentity]_vars

\* Logins of one account of each role.
RoleLogins ==
    {<<"admin", "admin123">>, <<"staff", "staff123">>, <<"PT-2024-001", "patient123">>}

\* The role-gated routes, requested with and without a session, by principals
\* of every role.
NextGate ==
    \/ \E c \in RoleLogins : Login(c[1], c[2])
    \/ \E token \in Tokens, body \in NewPatientInputs : PostPatients(token, body)
    \/ \E token \in Tokens, id \in PatientIds : PutPatient(token, id, [bloodSugar |-> 210])
    \/ \E token \in Tokens, id \in PatientIds : DeletePatientRoute(token, id)
    \/ \E token \in Tokens : GetAuditLogsRoute(token)

SpecGate == Init /\ [][NextGate]_vars

\* requireAuth alone: the status it answers with, 0 when the handler runs.
requireAuth(token) == IF token \notin DOMAIN sessions THEN 401 ELSE 0

\* POST /api/logout
Logout(token) ==
    /\ LET op == "POST /api/logout"
           g == requireAuth(token)
       IN  IF g /= 0
           THEN /\ last' = Request(op, 0, token, Empty, "rejected", g)
                /\ UNCHANGED sessions
           ELSE /\ sessions' = Restrict(sessions, DOMAIN sessions \ {token})
                /\ last' = Request(op, sessions[token].id, token, Empty, "ok", 200)
    /\ UNCHANGED <<dbVars, sessionsSeq, mem, now, calls>>

\* GET /api/me
GetMe(token) ==
    /\ LET op == "GET /api/me"
           g == requireAuth(token)
       IN  IF g /= 0
           THEN last' = Request(op, 0, token, Empty, "rejected", g)
           ELSE last' = Request(op, sessions[token].id, token, Empty, "ok", 200)
    /\ UNCHANGED <<dbVars, sessions, sessionsSeq, mem, now, calls>>

\* Login attempts: two accounts with their passwords, a wrong password, and
\* a username no user has.
SessionLogins == LoginInputs \union {<<"nobody", "admin123">>}

\* Logging in and out, and requests made with the tokens in between.
NextSession ==
    \/ \E c \in SessionLogins : Login(c[1], c[2])
    \/ \E token \in Tokens : Logout(token)
    \/ \E token \in Tokens : GetMe(token)
    \/ \E token \in Tokens, body \in NewPatientInputs : PostPatients(token, body)

SpecSession == Init /\ [][NextSession]_vars

\* A username as the characters a patientId is compared with.
usernameChars(username) ==
    CASE username = "PT-2024-001" ->
             <<"P", "T", "-", "2", "0", "2", "4", "-", "0", "0", "1">>
      [] username = "admin" -> <<"a", "d", "m", "i", "n">>
      [] username = "staff" -> <<"s", "t", "a", "f", "f">>
      [] username = "nurse" -> <<"n", "u", "r", "s", "e">>

\* DatabaseStorage.getPatientByPatientId: the id of the row, 0 for undefined.
getPatientByPatientId(d, patientId) ==
    LET found == {p \in DOMAIN d.patients : d.patients[p].patientId = patientId}
    IN  IF found = {} THEN 0 ELSE CHOOSE p \in found : TRUE

\* GET /api/patients/:id/history: the patient and its history, for any
\* authenticated principal.
GetPatientHistory(token, id) ==
    /\ LET op == "GET /api/patients/:id/history"
           g == requireAuth(token)
           user == sessions[token]
       IN  IF g /= 0
           THEN last' = Request(op, 0, 0, Empty, "rejected", g)
           ELSE IF id \notin DOMAIN patients
           THEN last' = Request(op, user.id, 0, Empty, "undefined", 404)
           ELSE \E rows \in getHealthHistoryByPatient(DB, id) :
                    last' = [Request(op, user.id, id, Empty, "ok", 200) EXCEPT !.rows = rows]
    /\ UNCHANGED <<dbVars, sessions, sessionsSeq, mem, now, calls>>

\* GET /api/patient/:patientId/data (the handler registered first)
GetPatientData(token, patientId) ==
    /\ LET op == "GET /api/patient/:patientId/data"
           g == requireAuth(token)
           user == sessions[token]
           p == getPatientByPatientId(DB, patientId)
       IN  IF g /= 0
           THEN last' = Request(op, 0, 0, Empty, "rejected", g)
           ELSE IF user.role = "patient" /\ usernameChars(user.username) /= patientId
           THEN last' = Request(op, user.id, 0, Empty, "denied", 403)
           ELSE IF p = 0
           THEN last' = Request(op, user.id, 0, Empty, "undefined", 404)
           ELSE last' = Request(op, user.id, p, Empty, "ok", 200)
    /\ UNCHANGED <<dbVars, sessions, sessionsSeq, mem, now, calls>>

\* GET /api/patients/:id
GetPatientById(token, id) ==
    /\ LET op == "GET /api/patients/:id"
           g == requireAuth(token)
           user == sessions[token]
       IN  IF g /= 0
           THEN last' = Request(op, 0, 0, Empty, "rejected", g)
           ELSE IF id \notin DOMAIN patients
           THEN last' = Request(op, user.id, 0, Empty, "undefined", 404)
           ELSE IF user.role /= "admin" /\ patients[id].createdBy /= user.id
           THEN last' = Request(op, user.id, 0, Empty, "denied", 403)
           ELSE last' = Request(op, user.id, id, Empty, "ok", 200)
    /\ UNCHANGED <<dbVars, sessions, sessionsSeq, mem, now, calls>>

\* The patientId values a portal request may name: generated ones, and the
\* username of the portal account.
PatientKeys ==
    {generatedPatientId(t) : t \in 0 .. MaxClock} \union {usernameChars("PT-2024-001")}

\* Staff creating patients, and the read routes of patient records requested
\* by staff and by the portal account.
NextPortal ==
    \/ \E c \in {<<"staff", "staff123">>, <<"PT-2024-001", "patient123">>} :
           Login(c[1], c[2])
    \/ \E token \in Tokens, body \in NewPatientInputs : PostPatients(token, body)
    \/ \E token \in Tokens, id \in PatientIds : GetPatientHistory(token, id)
    \/ \E token \in Tokens, patientId \in PatientKeys : GetPatientData(token, patientId)
    \/ \E token \in Tokens, id \in PatientIds : GetPatientById(token, id)
    \/ Tick

SpecPortal == Init /\ [][NextPortal]_vars

\* GET /api/patients
GetPatients(token) ==
    /\ LET op == "GET /api/patients"
           g == requireAuth(token)
           user == sessions[token]
       IN  IF g /= 0
           THEN last' = Query(op, 0, "rejected", g, <<>>)
           ELSE \E rows \in IF user.role = "admin"
                            THEN getAllPatients(DB)
                            ELSE getPatientsByCreator(DB, user.id) :
                    last' = Query(op, user.id, "ok", 200, rows)
    /\ UNCHANGED <<dbVars, sessions, sessionsSeq, mem, now, calls>>

\* Administrator and staff creating patients, and principals of the three
\* roles listing them.
NextList ==
    \/ \E c \in RoleLogins : Login(c[1], c[2])
    \/ \E token \in Tokens, body \in NewPatientInputs : PostPatients(token, body)
    \/ \E token \in Tokens : GetPatients(token)
    \/ Tick

SpecList == Init /\ [][NextList]_vars

\* storage.getPatientStats(), as GET /api/stats calls it; the record of the
\* call carries the counts returned in arg.
GetPatientStats ==
    /\ LET stats == getPatientStats(DB)
       IN  last' = Call("getPatientStats", 0, stats, Outcome(DB, "ok", stats.criticalCases))
    /\ UNCHANGED <<dbVars, sessions, sessionsSeq, mem, now, calls>>

\* New patients for the statistics: vitals in the normal range, and a
\* systolic pressure of exactly 140.
StatsPatientInputs ==
    NewPatientInputs \union
        {[name |-> "A", bloodSugar |-> 95, bloodPressureSystolic |-> 140,
          bloodPressureDiastolic |-> 76]}

\* Updates for the statistics: a blood sugar of 210 and a diastolic pressure
\* of 95.
StatsUpdateInputs == {[bloodSugar |-> 210], [bloodPressureDiastolic |-> 95]}

\* Patients created, updated and deleted, and the statistics read.
NextStats ==
    \/ \E body \in StatsPatientInputs : CreatePatient(body, 2)
    \/ \E id \in PatientIds, updates \in StatsUpdateInputs : UpdatePatient(id, updates)
    \/ \E id \in PatientIds : DeletePatient(id)
    \/ GetPatientStats
    \/ Tick

SpecStats == Init /\ [][NextStats]_vars

\* Vitals handed to getVitalStatus: at, below and above both thresholds of
\* each of the three inputs.
SystolicInputs == {118, 120, 121, 140, 141}

DiastolicInputs == {76, 80, 81, 90, 91}

SugarInputs == {95, 140, 141, 200, 201}

\* The record of a call of one component's getVitalStatus: the vitals in arg
\* and the object returned as the only element of rows.
Classified(component, systolic, diastolic, sugar, result) ==
    [op |-> "getVitalStatus", by |-> component, id |-> 0,
     arg |-> [systolic |-> systolic, diastolic |-> diastolic, sugar |-> sugar],
     status |-> "ok", val |-> 0, rows |-> <<result>>]

\* The components, in the order of the actions below.
DashboardOverview == 1

AdminPanel == 2

PatientManagement == 3

PatientView == 4

PatientModal == 5

DashboardOverview_render(systolic, diastolic, sugar) ==
    /\ last' = Classified(DashboardOverview, systolic, diastolic, sugar,
                          getVitalStatus(systolic, diastolic, sugar))
    /\ UNCHANGED <<dbVars, sessions, sessionsSeq, mem, now, calls>>

AdminPanel_render(systolic, diastolic, sugar) ==
    /\ last' = Classified(AdminPanel, systolic, diastolic, sugar,
                          AdminPanel_getVitalStatus(systolic, diastolic, sugar))
    /\ UNCHANGED <<dbVars, sessions, sessionsSeq, mem, now, calls>>

PatientManagement_render(systolic, diastolic, sugar) ==
    /\ last' = Classified(PatientManagement, systolic, diastolic, sugar,
                          PatientManagement_getVitalStatus(systolic, diastolic, sugar))
    /\ UNCHANGED <<dbVars, sessions, sessionsSeq, mem, now, calls>>

PatientView_render(systolic, diastolic, sugar) ==
    /\ last' = Classified(PatientView, systolic, diastolic, sugar,
                          PatientView_getVitalStatus(systolic, diastolic, sugar))
    /\ UNCHANGED <<dbVars, sessions, sessionsSeq, mem, now, calls>>

PatientModal_render(systolic, diastolic, sugar) ==
    /\ last' = Classified(PatientModal, systolic, diastolic, sugar,
                          PatientModal_getVitalStatus(systolic, diastolic, sugar))
    /\ UNCHANGED <<dbVars, sessions, sessionsSeq, mem, now, calls>>

\* Every component classifying every combination of the vitals.
NextVitals ==
    \/ \E systolic \in SystolicInputs, diastolic \in DiastolicInputs, sugar \in SugarInputs :
           DashboardOverview_render(systolic, diastolic, sugar)
    \/ \E systolic \in SystolicInputs, diastolic \in DiastolicInputs, sugar \in SugarInputs :
           AdminPanel_render(systolic, diastolic, sugar)
    \/ \E systolic \in SystolicInputs, diastolic \in DiastolicInputs, sugar \in SugarInputs :
           PatientManagement_render(systolic, diastolic, sugar)
    \/ \E systolic \in SystolicInputs, diastolic \in DiastolicInputs, sugar \in SugarInputs :
           PatientView_render(systolic, diastolic, sugar)
    \/ \E systolic \in SystolicInputs, diastolic \in DiastolicInputs, sugar \in SugarInputs :
           PatientModal_render(systolic, diastolic, sugar)

SpecVitals == Init /\ [][NextVitals]_vars

\* ------------------------------------------------ GET /api/patients/export
\* Characters of the exported texts: a letter, an apostrophe, and the four
\* characters escapeCsvField looks for.
CsvAlphabet == {"a", "'", ",", "\"", "\n", "\r"}

\* Texts, as sequences of characters.
FieldStrings == UNION {[1 .. n -> CsvAlphabet] : n \in 0 .. MaxFieldLen}

\* Values of a text column: null or a string.
FieldValues == {[kind |-> "null"]} \union {[kind |-> "string", str |-> s] : s \in FieldStrings}

\* str.includes(c)
includes(str, c) == \E i \in 1 .. Len(str) : str[i] = c

RECURSIVE replaceQuotes(_)
\* str.replace(/"/g, '""')
replaceQuotes(str) ==
    IF str = <<>> THEN <<>>
    ELSE (IF Head(str) = "\"" THEN <<"\"", "\"">> ELSE <<Head(str)>>) \o replaceQuotes(Tail(str))

\* An escapeCsvField that wraps the field in quotes and leaves its quotes as
\* they are.
escapeCsvField_noDoubling(field) ==
    IF field.kind = "null" THEN <<>>
    ELSE LET str == field.str
         IN  IF includes(str, ",") \/ includes(str, "\"") \/ includes(str, "\n")
                \/ includes(str, "\r")
             THEN <<"\"">> \o str \o <<"\"">>
             ELSE str

\* escapeCsvField of the export route.
escapeCsvField(field) ==
    IF field.kind = "null" THEN <<>>
    ELSE LET str == field.str
         IN  IF includes(str, ",") \/ includes(str, "\"") \/ includes(str, "\n")
                \/ includes(str, "\r")
             THEN <<"\"">> \o replaceQuotes(str) \o <<"\"">>
             ELSE str

RECURSIVE join(_, _)
\* fields.join(separator)
join(fields, separator) ==
    IF fields = <<>> THEN <<>>
    ELSE IF Len(fields) = 1 THEN fields[1]
    ELSE fields[1] \o <<separator>> \o join(Tail(fields), separator)

\* The line of the export for a patient, of which the two free-text columns
\* (name, medicalHistory) are kept: the escaped fields and their join, in
\* rows.
ExportRow(name, medicalHistory) ==
    /\ LET fields == <<escapeCsvField(name), escapeCsvField(medicalHistory)>>
       IN  last' = [op |-> "escapeCsvField", by |-> 0, id |-> 0,
                    arg |-> [name |-> name, medicalHistory |-> medicalHistory],
                    status |-> "ok", val |-> 200,
                    rows |-> fields \o <<join(fields, ",")>>]
    /\ UNCHANGED <<dbVars, sessions, sessionsSeq, mem, now, calls>>

\* Medical histories of the exported patients: none, and texts with a line
\* break, with a comma and with a quote.
MedicalHistories ==
    {[kind |-> "null"], [kind |-> "string", str |-> <<"a", "\n">>],
     [kind |-> "string", str |-> <<",">>], [kind |-> "string", str |-> <<"\"", "a">>]}

NextCsv ==
    \E name \in FieldValues, medicalHistory \in MedicalHistories :
        ExportRow(name, medicalHistory)

SpecCsv == Init /\ [][NextCsv]_vars

\* ------------------------------------------------------------ the AI routes
\* What the child process of callPythonScript can do: close with an exit code
\* and an output that JSON.parse accepts or not, or fail to start, which the
\* runtime reports by an 'error' event.
ChildOutcomes ==
    {[event |-> "close", code |-> 0, stdout |-> "json"],
     [event |-> "close", code |-> 0, stdout |-> "garbage"],
     [event |-> "close", code |-> 1, stdout |-> "garbage"],
     [event |-> "error", code |-> -2, stdout |-> "garbage"]}

\* The value health_prediction.py prints when it succeeds (the script is not
\* part of the sources: one result that no fallback produces).
PythonPrediction ==
    [cardiovascularRisk |-> 12, diabetesRisk |-> 8, overallHealthScore |-> Halves(90),
     recommendations |-> <<"Maintain current lifestyle">>]

\* The value image_analysis.py prints when it succeeds.
PythonAnalysis ==
    [abnormalityDetected |-> FALSE, confidence |-> 9100, findings |-> "Clear.",
     recommendations |-> <<"None">>]

\* PythonMLInterface.callPythonScript: how its promise settles for an outcome
\* of the child.  Only 'close' has a listener (and the two data streams): an
\* 'error' event is thrown by the emitter and nothing catches it.
callPythonScript(outcome, parsed) ==
    IF outcome.event = "error" THEN [settled |-> "uncaught", value |-> parsed]
    ELSE IF outcome.code /= 0 THEN [settled |-> "rejected", value |-> parsed]
    ELSE IF outcome.stdout /= "json" THEN [settled |-> "rejected", value |-> parsed]
    ELSE [settled |-> "resolved", value |-> parsed]

\* PythonMLInterface.predictHealthRisk: the results it can return, none when
\* the exception is outside its try.
predictHealthRisk(input, outcome) ==
    LET promise == callPythonScript(outcome, PythonPrediction)
    IN  IF promise.settled = "resolved" THEN {promise.value}
        ELSE IF promise.settled = "rejected" THEN {fallbackHealthPrediction(input)}
        ELSE {}

\* PythonMLInterface.analyzeImage: the results it can return.
analyzeImage(filename, analysisType, outcome) ==
    LET promise == callPythonScript(outcome, PythonAnalysis)
    IN  IF promise.settled = "resolved" THEN {promise.value}
        ELSE IF promise.settled = "rejected"
        THEN {fallbackImageAnalysis(filename, analysisType, random1, random2) :
                  random1 \in MathRandom, random2 \in MathRandom}
        ELSE {}

\* Bodies of POST /api/ai/health-prediction: without and with a patientId (of
\* the first patient), and one without bmi.
PredictionBodies ==
    {[age |-> 70, gender |-> "male", systolicBP |-> 150, diastolicBP |-> 95,
      bloodSugar |-> 210, bmi |-> 32],
     [age |-> 40, gender |-> "female", systolicBP |-> 118, diastolicBP |-> 76,
      bloodSugar |-> 95, bmi |-> 22, patientId |-> 1],
     [age |-> 40, gender |-> "female", systolicBP |-> 118, diastolicBP |-> 76,
      bloodSugar |-> 95]}

\* z.object({age, gender, systolicBP, diastolicBP, bloodSugar, bmi, patientId?}).parse
parsesAsPrediction(body) ==
    /\ {"age", "gender", "systolicBP", "diastolicBP", "bloodSugar", "bmi"} \subseteq DOMAIN body
    /\ body.gender \in {"male", "female"}

\* Bodies of POST /api/ai/image-analysis.
AnalysisBodies ==
    {[filename |-> "scan.png", analysisType |-> "xray"],
     [filename |-> "scan.png", analysisType |-> "ct", patientId |-> 1],
     [filename |-> "scan.png", analysisType |-> "pet"]}

\* z.object({filename, analysisType, patientId?}).parse
parsesAsAnalysis(body) ==
    /\ {"filename", "analysisType"} \subseteq DOMAIN body
    /\ body.analysisType \in {"xray", "ct", "mri", "ultrasound"}

\* The calls that can be started.
CallIds == 1 .. MaxCalls

\* The answer of an AI route: the body sent in rows.
Answer(op, by, input, status, code, rows) ==
    [op |-> op, by |-> by, id |-> 0, arg |-> input, status |-> status, val |-> code,
     rows |-> rows]

\* POST /api/ai/health-prediction up to its await: the gate, the parse and the
\* spawn of health_prediction.py.
PostHealthPrediction(token, body) ==
    LET op == "POST /api/ai/health-prediction"
        g == gate(token, {"staff", "admin"})
    IN  /\ IF g /= 0
           THEN last' = Answer(op, 0, body, "rejected", g, <<>>) /\ UNCHANGED calls
           ELSE IF ~parsesAsPrediction(body)
           THEN /\ last' = Answer(op, sessions[token].id, body, "invalid", 400, <<>>)
                /\ UNCHANGED calls
           ELSE \E call \in CallIds \ DOMAIN calls :
                   /\ calls' = calls @@ (call :> [op |-> op, by |-> sessions[token].id,
                                                  input |-> body])
                   /\ UNCHANGED last
        /\ UNCHANGED <<dbVars, sessions, sessionsSeq, mem, now>>

\* POST /api/ai/image-analysis up to its await.
PostImageAnalysis(token, body) ==
    LET op == "POST /api/ai/image-analysis"
        g == gate(token, {"staff", "admin"})
    IN  /\ IF g /= 0
           THEN last' = Answer(op, 0, body, "rejected", g, <<>>) /\ UNCHANGED calls
           ELSE IF ~parsesAsAnalysis(body)
           THEN /\ last' = Answer(op, sessions[token].id, body, "invalid", 400, <<>>)
                /\ UNCHANGED calls
           ELSE \E call \in CallIds \ DOMAIN calls :
                   /\ calls' = calls @@ (call :> [op |-> op, by |-> sessions[token].id,
                                                  input |-> body])
                   /\ UNCHANGED last
        /\ UNCHANGED <<dbVars, sessions, sessionsSeq, mem, now>>

\* The rest of POST /api/ai/health-prediction once the child has closed: the
\* prediction or its fallback, saved when the body names a patient, and sent.
ContinueHealthPrediction(call, outcome) ==
    LET c == calls[call]
    IN  \E prediction \in predictHealthRisk(c.input, outcome) :
            IF Truthy(Prop(c.input, "patientId"))
            THEN /\ healthPredictionsSeq < MaxPredictionSerial
                 /\ LET o == createHealthPrediction(DB, [patientId |-> c.input.patientId])
                    IN  /\ Commit(o.db)
                        /\ last' = IF Threw(o)
                                   THEN Answer(c.op, c.by, c.input, o.status, 400, <<>>)
                                   ELSE Answer(c.op, c.by, c.input, "ok", 200, <<prediction>>)
            ELSE /\ UNCHANGED dbVars
                 /\ last' = Answer(c.op, c.by, c.input, "ok", 200, <<prediction>>)

\* The rest of POST /api/ai/image-analysis once the child has closed.
ContinueImageAnalysis(call, outcome) ==
    LET c == calls[call]
    IN  \E analysis \in analyzeImage(c.input.filename, c.input.analysisType, outcome) :
            IF Truthy(Prop(c.input, "patientId"))
            THEN /\ medicalImagesSeq < MaxPredictionSerial
                 /\ LET o == createMedicalImage(DB,
                                 [patientId |-> c.input.patientId,
                                  filename |-> c.input.filename,
                                  analysisType |-> c.input.analysisType,
                                  confidence |-> analysis.confidence,
                                  findings |-> analysis.findings])
                    IN  /\ Commit(o.db)
                        /\ last' = IF Threw(o)
                                   THEN Answer(c.op, c.by, c.input, o.status, 400, <<>>)
                                   ELSE Answer(c.op, c.by, c.input, "ok", 200, <<analysis>>)
            ELSE /\ UNCHANGED dbVars
                 /\ last' = Answer(c.op, c.by, c.input, "ok", 200, <<analysis>>)

\* The 'close' event of the child of a call: the promise settles and the
\* route goes on.
ChildClose(call, outcome) ==
    /\ call \in DOMAIN calls
    /\ outcome.event = "close"
    /\ IF calls[call].op = "POST /api/ai/health-prediction"
       THEN ContinueHealthPrediction(call, outcome)
       ELSE ContinueImageAnalysis(call, outcome)
    /\ calls' = Restrict(calls, DOMAIN calls \ {call})
    /\ UNCHANGED <<sessions, sessionsSeq, mem, now>>

\* The 'error' event of the child of a call (python cannot be started): the
\* emitter has no listener for it and throws, no try is around it, and the
\* server process ends with its sessions and its pending requests; nothing is
\* answered.
ChildError(call) ==
    /\ call \in DOMAIN calls
    /\ LET c == calls[call]
       IN  last' = Answer(c.op, c.by, c.input, "uncaught_exception", 0, <<>>)
    /\ sessions' = Empty
    /\ calls' = Empty
    /\ UNCHANGED <<dbVars, sessionsSeq, mem, now>>

\* Predictions and analyses asked by the staff, with and without a patient.
NextAi ==
    \/ Login("staff", "staff123")
    \/ \E body \in NewPatientInputs : CreatePatient(body, 2)
    \/ \E token \in Tokens, body \in PredictionBodies : PostHealthPrediction(token, body)
    \/ \E token \in Tokens, body \in AnalysisBodies : PostImageAnalysis(token, body)
    \/ \E call \in CallIds, outcome \in ChildOutcomes : ChildClose(call, outcome)
    \/ \E call \in CallIds : ChildError(call)

SpecAi == Init /\ [][NextAi]_vars

\* Inputs of the prediction fallback: each number at and above each threshold
\* the fallback compares it with, and either gender.
HealthPredictionInputs ==
    [age : {45, 46, 65, 66}, gender : {"male", "female"}, systolicBP : {140, 141},
     diastolicBP : {90, 91}, bloodSugar : {126, 127, 200, 201}, bmi : {30, 31}]

\* Inputs of the image fallback.
ImageAnalysisInputs ==
    [filename : {"scan.png", "chest.png"}, analysisType : {"xray", "ct", "mri", "ultrasound"}]

\* An invocation of fallbackHealthPrediction(input).
FallbackHealthPrediction(input) ==
    /\ last' = Answer("fallbackHealthPrediction", 0, input, "ok", 0,
                      <<fallbackHealthPrediction(input)>>)
    /\ UNCHANGED <<dbVars, sessions, sessionsSeq, mem, now, calls>>

\* An invocation of fallbackImageAnalysis(filename, analysisType), which
\* calls Math.random() twice.
FallbackImageAnalysis(input) ==
    /\ \E random1 \in MathRandom, random2 \in MathRandom :
           last' = Answer("fallbackImageAnalysis", 0, input, "ok", 0,
                          <<fallbackImageAnalysis(input.filename, input.analysisType,
                                                  random1, random2)>>)
    /\ UNCHANGED <<dbVars, sessions, sessionsSeq, mem, now, calls>>

\* The two fallbacks invoked one after the other on any inputs.
NextFallback ==
    \/ \E input \in HealthPredictionInputs : FallbackHealthPrediction(input)
    \/ \E input \in ImageAnalysisInputs : FallbackImageAnalysis(input)

SpecFallback == Init /\ [][NextFallback]_vars

\* ------------------------------------------------------ appointment routes
\* storage.createAppointment(appointment)
CreateAppointment(appointment) ==
    /\ appointmentsSeq < MaxPredictionSerial
    /\ LET o == createAppointment(DB, appointment)
       IN  /\ Commit(o.db)
           /\ last' = Call("createAppointment", 0, appointment, o)
    /\ UNCHANGED <<sessions, sessionsSeq, mem, now, calls>>

\* PUT /api/appointments/:id
PutAppointment(token, id, body) ==
    /\ auditLogsSeq < MaxAuditSerial
    /\ LET op == "PUT /api/appointments/:id"
           g == requireAuth(token)
           user == sessions[token]
           o == updateAppointment(DB, id, body)
           a == createAuditLog(o.db,
                    [userId |-> user.id, action |-> "UPDATE_APPOINTMENT",
                     targetType |-> "appointment", targetId |-> NumberToString(id)], now)
       IN  IF g /= 0
           THEN UNCHANGED dbVars /\ last' = Request(op, 0, id, body, "rejected", g)
           ELSE IF Threw(o)
           THEN Commit(o.db) /\ last' = Request(op, user.id, id, body, o.status, 400)
           ELSE IF o.val = 0
           THEN UNCHANGED dbVars /\ last' = Request(op, user.id, id, body, "undefined", 404)
           ELSE IF Threw(a)
           THEN Commit(a.db) /\ last' = Request(op, user.id, id, body, a.status, 400)
           ELSE Commit(a.db) /\ last' = Request(op, user.id, id, body, "ok", 200)
    /\ UNCHANGED <<sessions, sessionsSeq, mem, now, calls>>

\* DELETE /api/appointments/:id
DeleteAppointment(token, id) ==
    /\ auditLogsSeq < MaxAuditSerial
    /\ LET op == "DELETE /api/appointments/:id"
           g == requireAuth(token)
           user == sessions[token]
           o == deleteAppointment(DB, id)
           a == createAuditLog(o.db,
                    [userId |-> user.id, action |-> "DELETE_APPOINTMENT",
                     targetType |-> "appointment", targetId |-> NumberToString(id)], now)
       IN  IF g /= 0
           THEN UNCHANGED dbVars /\ last' = Request(op, 0, id, Empty, "rejected", g)
           ELSE IF o.val = 0
           THEN UNCHANGED dbVars /\ last' = Request(op, user.id, id, Empty, "undefined", 404)
           ELSE IF Threw(a)
           THEN Commit(a.db) /\ last' = Request(op, user.id, id, Empty, a.status, 500)
           ELSE Commit(a.db) /\ last' = Request(op, user.id, id, Empty, "ok", 200)
    /\ UNCHANGED <<sessions, sessionsSeq, mem, now, calls>>

\* The appointments requests are made on: the first one and one that is never
\* made.
AppointmentIds == 1 .. 2

\* An appointment of the first patient with the staff account, updated and
\* deleted by the staff and by the portal account of another patient.
NextAppointments ==
    \/ \E c \in {<<"staff", "staff123">>, <<"PT-2024-001", "patient123">>} :
           Login(c[1], c[2])
    \/ \E body \in NewPatientInputs : CreatePatient(body, 2)
    \/ CreateAppointment([patientId |-> 1, staffId |-> 2])
    \/ \E token \in Tokens, id \in AppointmentIds :
           PutAppointment(token, id, [status |-> "cancelled"])
    \/ \E token \in Tokens, id \in AppointmentIds : DeleteAppointment(token, id)

SpecAppointments == Init /\ [][NextAppointments]_vars

\* memStorage.getPatientStats()
Mem_GetPatientStats ==
    /\ LET stats == Mem_getPatientStats(mem)
       IN  last' = Call("MemStorage.getPatientStats", 0, stats,
                        Outcome(mem, "ok", stats.criticalCases))
    /\ UNCHANGED <<dbVars, sessions, sessionsSeq, mem, now, calls>>

\* Patients with vitals at and around the thresholds of the statistics:
\* normal ones, a systolic pressure of exactly 140, a blood sugar of exactly
\* 200, and a diastolic pressure of 95.
ThresholdPatientInputs ==
    StatsPatientInputs \union
        {[name |-> "A", bloodSugar |-> 200, bloodPressureSystolic |-> 118,
          bloodPressureDiastolic |-> 76],
         [name |-> "A", bloodSugar |-> 95, bloodPressureSystolic |-> 118,
          bloodPressureDiastolic |-> 95]}

\* Patients created in either store and the statistics of each read.
NextThresholds ==
    \/ \E body \in ThresholdPatientInputs : CreatePatient(body, 2)
    \/ GetPatientStats
    \/ \E body \in ThresholdPatientInputs : Mem_CreatePatient(body, 2)
    \/ Mem_GetPatientStats
    \/ Tick

SpecThresholds == Init /\ [][NextThresholds]_vars

\* ------------------------------------------- the two stores side by side
\* The columns of a patient row both stores keep.
PatientColumns == PatientNotNull \union PatientNullable

\* A patient row as the caller of either store sees it: the common columns,
\* a column the row lacks being null; no row for undefined.
patientResult(table, id) ==
    IF id \notin DOMAIN table THEN Empty
    ELSE [c \in PatientColumns |-> Col(table[id], c)]

\* A database that holds what new MemStorage() holds: the sample patients,
\* their history and the sample prediction, with the sequences after them.
InitEqual ==
    /\ users = SeedUsers
    /\ patients = [p \in DOMAIN MemSeedPatients |-> patientResult(MemSeedPatients, p)]
    /\ healthHistory = initializeDefaultData.healthHistories
    /\ healthPredictions = initializeDefaultData.healthPredictions
    /\ patientsSeq = Cardinality(DOMAIN MemSeedPatients)
    /\ healthHistorySeq = Len(MemSeedReadings)
    /\ healthPredictionsSeq = 1
    /\ auditLogs = Empty
    /\ auditLogsSeq = 0
    /\ usersSeq = Cardinality(DOMAIN SeedUsers)
    /\ medicalImages = Empty
    /\ medicalImagesSeq = 0
    /\ appointments = Empty
    /\ appointmentsSeq = 0
    /\ sessions = Empty
    /\ sessionsSeq = 0
    /\ mem = initializeDefaultData
    /\ now = 0
    /\ calls = Empty
    /\ last = NoCall

\* The record of one call made on both stores: what DatabaseStorage and what
\* MemStorage returned, in this order, in rows.
BothCall(op, id, arg, dbResult, memResult) ==
    [op |-> op, by |-> 0, id |-> id, arg |-> arg, status |-> "ok", val |-> 0,
     rows |-> <<dbResult, memResult>>]

\* What a method returned: its status when it threw, its value otherwise.
returned(o, value) == [status |-> o.status, value |-> IF Threw(o) THEN Empty ELSE value]

\* createPatient(patient) on both stores.
Both_createPatient(body, createdBy) ==
    /\ mem.currentPatientId <= MaxMemPatientId
    /\ patientsSeq < MaxMemPatientId
    /\ healthHistorySeq < MaxMemHistoryId
    /\ LET patient == [createdBy |-> createdBy] @@ body
                       @@ [patientId |-> generatedPatientId(now)]
           o == createPatient(DB, patient, now)
           m == Mem_createPatient(mem, patient, now)
       IN  /\ Commit(o.db)
           /\ mem' = m.db
           /\ last' = BothCall("createPatient", 0, patient,
                               returned(o, patientResult(o.db.patients, o.val)),
                               returned(m, patientResult(m.db.patients, m.val)))
    /\ UNCHANGED <<sessions, sessionsSeq, now, calls>>

\* updatePatient(id, updates, recordedBy) on both stores, as the route calls
\* it; DatabaseStorage.updatePatient takes no third argument.
Both_updatePatient(id, updates, recordedBy) ==
    /\ mem.currentHealthHistoryId <= MaxMemHistoryId
    /\ healthHistorySeq < MaxMemHistoryId
    /\ LET o == updatePatient(DB, id, updates, now)
           m == Mem_updatePatient(mem, id, updates, recordedBy, now)
       IN  /\ Commit(o.db)
           /\ mem' = m.db
           /\ last' = BothCall("updatePatient", id, updates,
                               returned(o, patientResult(o.db.patients, o.val)),
                               returned(m, patientResult(m.db.patients, m.val)))
    /\ UNCHANGED <<sessions, sessionsSeq, now, calls>>

\* deletePatient(id) on both stores.
Both_deletePatient(id) ==
    /\ LET o == deletePatient(DB, id)
           m == Mem_deletePatient(mem, id)
       IN  /\ Commit(o.db)
           /\ mem' = m.db
           /\ last' = BothCall("deletePatient", id, Empty,
                               returned(o, o.val > 0), returned(m, m.val > 0))
    /\ UNCHANGED <<sessions, sessionsSeq, now, calls>>

\* getPatientStats() on both stores.
Both_getPatientStats ==
    /\ last' = BothCall("getPatientStats", 0, Empty,
                        [status |-> "ok", value |-> getPatientStats(DB)],
                        [status |-> "ok", value |-> Mem_getPatientStats(mem)])
    /\ UNCHANGED <<dbVars, sessions, sessionsSeq, mem, now, calls>>

\* The patients the calls on both stores are made on: the three sample
\* patients, the next one created, and an id that is never given.
BothPatientIds == 1 .. (Cardinality(DOMAIN MemSeedPatients) + 2)

\* The same calls made on a DatabaseStorage and a MemStorage of equal
\* contents.
NextBoth ==
    \/ \E body \in StatsPatientInputs : Both_createPatient(body, 2)
    \/ \E id \in BothPatientIds, updates \in FewUpdateInputs : Both_updatePatient(id, updates, 2)
    \/ \E id \in BothPatientIds : Both_deletePatient(id)
    \/ Both_getPatientStats
    \/ Tick

SpecBoth == InitEqual /\ [][NextBoth]_vars

\* ------------------------------------------- updatePatient, statement by statement
\* DatabaseStorage.updatePatient awaits three statements: the SELECT of the
\* existing row, the UPDATE ... RETURNING and the INSERT of the history entry.
\* Other calls run between them.  A call in flight keeps its locals in calls.
EditIds == 1 .. MaxEdits

\* The payloads: one vitals field raised, another one raised, and a vitals
\* field raised together with one set to 0.
EditInputs ==
    {[bloodSugar |-> 210],
     [bloodPressureSystolic |-> 150],
     [bloodSugar |-> 0, bloodPressureSystolic |-> 150]}

\* The patients edited: a sample patient and an id that is in no table.
EditPatientIds == {1, Cardinality(DOMAIN MemSeedPatients) + 1}

\* The record of a completed updatePatient: the row it returns and, when it
\* recorded one, the history entry it appended.
Edited(op, id, patient, status, rows) ==
    [op |-> op, by |-> 0, id |-> id, arg |-> patient, status |-> status, val |-> id,
     rows |-> rows]

\* const existingPatient = await this.getPatient(id);
\* if (!existingPatient) return undefined;
Edit_getPatient(call, id, patient) ==
    /\ call \notin DOMAIN calls
    /\ healthHistorySeq + Cardinality(DOMAIN calls) < Len(MemSeedReadings) + MaxEdits
    /\ IF id \notin DOMAIN patients
       THEN /\ last' = Edited("updatePatient", id, patient, "undefined", <<>>)
            /\ UNCHANGED calls
       ELSE /\ calls' = calls @@ (call :> [op |-> "updatePatient", pc |-> "update", id |-> id,
                                           patient |-> patient,
                                           existingPatient |-> patients[id]])
            /\ UNCHANGED last
    /\ UNCHANGED <<dbVars, sessions, sessionsSeq, mem, now>>

\* const result = await db.update(patients).set(patient).where(eq(patients.id, id)).returning();
\* and, when no vitals field of the payload is truthy, return result[0].
Edit_update(call) ==
    /\ call \in DOMAIN calls
    /\ calls[call].op = "updatePatient"
    /\ calls[call].pc = "update"
    /\ LET c == calls[call]
           upd == setPatient(DB, c.id, c.patient)
           result == upd.patients[c.id]
       IN  /\ Commit(upd)
           /\ IF recordsHistory(c.patient)
              THEN /\ calls' = [calls EXCEPT ![call] =
                                   [op |-> c.op, pc |-> "createHealthHistory", id |-> c.id,
                                    patient |-> c.patient,
                                    existingPatient |-> c.existingPatient,
                                    result |-> result]]
                   /\ UNCHANGED last
              ELSE /\ calls' = [k \in DOMAIN calls \ {call} |-> calls[k]]
                   /\ last' = Edited("updatePatient", c.id, c.patient, "ok", <<result>>)
    /\ UNCHANGED <<sessions, sessionsSeq, mem, now>>

\* await this.createHealthHistory({...}); return result[0];
Edit_createHealthHistory(call) ==
    /\ call \in DOMAIN calls
    /\ calls[call].op = "updatePatient"
    /\ calls[call].pc = "createHealthHistory"
    /\ LET c == calls[call]
           h == createHealthHistory(DB,
                    [patientId |-> c.id,
                     bloodPressureSystolic |->
                         OrElse(Prop(c.patient, "bloodPressureSystolic"),
                                c.existingPatient.bloodPressureSystolic),
                     bloodPressureDiastolic |->
                         OrElse(Prop(c.patient, "bloodPressureDiastolic"),
                                c.existingPatient.bloodPressureDiastolic),
                     bloodSugar |-> OrElse(Prop(c.patient, "bloodSugar"),
                                           c.existingPatient.bloodSugar),
                     weight |-> OrElse(Prop(c.patient, "weight"),
                                       Prop(c.existingPatient, "weight")),
                     height |-> OrElse(Prop(c.patient, "height"),
                                       Prop(c.existingPatient, "height")),
                     recordedBy |-> updateRecordedBy,
                     changeType |-> "manual_edit"], now)
       IN  /\ Commit(h.db)
           /\ calls' = [k \in DOMAIN calls \ {call} |-> calls[k]]
           /\ last' = IF Threw(h)
                      THEN Edited("updatePatient", c.id, c.patient, h.status, <<c.result>>)
                      ELSE Edited("updatePatient", c.id, c.patient, "ok",
                                  <<c.result, h.db.healthHistory[h.val]>>)
    /\ UNCHANGED <<sessions, sessionsSeq, mem, now>>

\* MemStorage.updatePatient(id, updates, recordedBy): it awaits nothing before
\* its last statement, so the whole of it runs in one turn.
Mem_Edit(id, updates, recordedBy) ==
    /\ mem.currentHealthHistoryId <= MaxMemHistoryId
    /\ LET o == Mem_updatePatient(mem, id, updates, recordedBy, now)
           appended == DOMAIN o.db.healthHistories \ DOMAIN mem.healthHistories
       IN  /\ mem' = o.db
           /\ last' = IF o.status = "undefined"
                      THEN Edited("MemStorage.updatePatient", id, updates, "undefined", <<>>)
                      ELSE Edited("MemStorage.updatePatient", id, updates, "ok",
                                  <<o.db.patients[id]>>
                                      \o IF appended = {} THEN <<>>
                                         ELSE <<o.db.healthHistories[CHOOSE h \in appended : TRUE]>>)
    /\ UNCHANGED <<dbVars, sessions, sessionsSeq, now, calls>>

\* updatePatient calls on a store that holds the sample patients, the
\* statements of the calls on DatabaseStorage taking turns.
NextEdit ==
    \/ \E call \in EditIds, id \in EditPatientIds, patient \in EditInputs :
           Edit_getPatient(call, id, patient)
    \/ \E call \in EditIds : Edit_update(call)
    \/ \E call \in EditIds : Edit_createHealthHistory(call)
    \/ \E id \in EditPatientIds, updates \in EditInputs : Mem_Edit(id, updates, 2)
    \/ Tick

SpecEdit == InitEqual /\ [][NextEdit]_vars

\* ------------------------------------------------- sessions of deleted users
\* The administrator and a staff member log in, users are deleted through
\* DELETE /api/admin/users/:id, and requests are made with the tokens issued.
NextRevoke ==
    \/ \E c \in {<<"admin", "admin123">>, <<"staff", "staff123">>} : Login(c[1], c[2])
    \/ \E token \in Tokens, id \in DeletedUserIds : DeleteAdminUser(token, id)
    \/ \E token \in Tokens : GetMe(token)
    \/ \E token \in Tokens : Logout(token)
    \/ Tick

SpecRevoke == Init /\ [][NextRevoke]_vars

\* The patient operations of the store.
Next ==
    \/ \E body \in NewPatientInputs, u \in Creators : CreatePatient(body, u)
    \/ \E id \in PatientIds, updates \in UpdateInputs : UpdatePatient(id, updates)
    \/ \E id \in PatientIds : DeletePatient(id)
    \/ Tick

Spec == Init /\ [][Next]_vars

\* The patient operations together with the tables that reference patients
\* and users.
NextRefs ==
    \/ \E body \in NewPatientInputs, u \in Creators : CreatePatient(body, u)
    \/ \E id \in PatientIds, updates \in FewUpdateInputs : UpdatePatient(id, updates)
    \/ \E id \in PatientIds : DeletePatient(id)
    \/ \E id \in DeletedUserIds : DeleteUser(id)
    \/ \E id \in PatientIds : CreateHealthPrediction(id)
    \/ Tick

SpecRefs == Init /\ [][NextRefs]_vars

\* Writing and reading the history of patients as time passes.
NextQuery ==
    \/ \E body \in NewPatientInputs : CreatePatient(body, 2)
    \/ \E id \in PatientIds : UpdatePatient(id, [bloodSugar |-> 210])
    \/ \E id \in PatientIds : GetHealthHistoryByPatient(id)
    \/ Tick

SpecQuery == Init /\ [][NextQuery]_vars

\* ------------------------------------------------------------------ claims
\* The history rows of patient id in the current state.
historyRows(id) == HistoryOf(DB, id)

\* The history rows of patient id after the step.
historyRowsNext(id) == {h \in DOMAIN healthHistory' : healthHistory'[h].patientId = id}

\* Whether a payload names one of the vitals fields.
touchesVitals(updates) == DOMAIN updates \cap VitalsFields /= {}

\* C1: a patient has at least one history entry (an initial_record) right
\* after createPatient returns, every later updatePatient of that patient that
\* names a vitals field adds exactly one, and one that names none adds none.
C1_HistoryCountPerMutation ==
    [][/\ \A body \in NewPatientInputs, u \in Creators :
            (CreatePatient(body, u) /\ last'.status = "ok") =>
                \E h \in historyRowsNext(last'.val) :
                    healthHistory'[h].changeType = "initial_record"
       /\ \A id \in DOMAIN patients, updates \in UpdateInputs :
            UpdatePatient(id, updates) =>
                Cardinality(historyRowsNext(id)) =
                    Cardinality(historyRows(id)) + (IF touchesVitals(updates) THEN 1 ELSE 0)
      ]_vars

\* C2: updatePatient of an existing patient appends a manual_edit entry for
\* that patient whenever the payload names a vitals field, whatever its value.
C2_HistoryByPresence ==
    [][\A id \in DOMAIN patients, updates \in UpdateInputs :
          (UpdatePatient(id, updates) /\ touchesVitals(updates)) =>
              \E h \in DOMAIN healthHistory' \ DOMAIN healthHistory :
                  /\ healthHistory'[h].patientId = id
                  /\ healthHistory'[h].changeType = "manual_edit"
      ]_vars

\* C8: updatePatient with an id that is no patient's returns undefined, does
\* not throw, and leaves the patients and the history as they were.
C8_UpdateUnknownPatient ==
    [][\A id \in PatientIds \ DOMAIN patients, updates \in UpdateInputs :
          UpdatePatient(id, updates) =>
              /\ last'.status = "undefined"
              /\ patients' = patients
              /\ healthHistory' = healthHistory
      ]_vars

\* C8 witness: an update of an id no patient has (one never created or one
\* deleted) has returned undefined while other patients exist.
C8_Witness ==
    /\ last.op = "updatePatient"
    /\ last.status = "undefined"
    /\ last.id \notin DOMAIN patients
    /\ patients /= Empty

\* C3: history entries are append-only: in every step each existing entry
\* stays, with every field as it was, unless the step is deletePatient of the
\* entry's patient.
C3_HistoryAppendOnly ==
    [][\A h \in DOMAIN healthHistory :
          \/ h \in DOMAIN healthHistory' /\ healthHistory'[h] = healthHistory[h]
          \/ DeletePatient(healthHistory[h].patientId)
      ]_vars

\* C3 witness: a patient has been deleted, and with it its history, while the
\* entries of another patient, one of them appended by an update, are there.
C3_Witness ==
    /\ last.op = "deletePatient"
    /\ returnedTrue(last)
    /\ \E h \in DOMAIN healthHistory : healthHistory[h].changeType = "manual_edit"
    /\ \E h \in DOMAIN healthHistory : healthHistory[h].changeType = "initial_record"

\* The timestamp of history row h.
timestampOf(h) == healthHistory[h].timestamp

\* Whether a result (a sequence of history row ids) is ordered newest-first.
newestFirst(rows) ==
    \A i, j \in 1 .. Len(rows) : i < j => timestampOf(rows[i]) >= timestampOf(rows[j])

\* C5: getHealthHistoryByPatient returns exactly the entries of the patient,
\* ordered newest-first by timestamp.
C5_HistoryNewestFirst ==
    last.op = "getHealthHistoryByPatient" =>
        /\ {last.rows[i] : i \in 1 .. Len(last.rows)} = historyRows(last.id)
        /\ Len(last.rows) = Cardinality(historyRows(last.id))
        /\ newestFirst(last.rows)

\* C6: deletePatient of an existing patient removes the patient row and all
\* its history rows and returns true; deletePatient of an unknown id returns
\* false, does not throw and changes no row.
C6_DeletePatientResult ==
    [][\A id \in PatientIds :
          DeletePatient(id) =>
              IF id \in DOMAIN patients
              THEN /\ returnedTrue(last')
                   /\ id \notin DOMAIN patients'
                   /\ historyRowsNext(id) = {}
              ELSE /\ returnedFalse(last')
                   /\ UNCHANGED <<users, patients, healthHistory, healthPredictions,
                                   auditLogs, medicalImages, appointments>>
      ]_vars

\* C7: deletePatient is atomic: whatever a step does, a patient that was there
\* is either gone together with all its history rows, or still there with
\* every history row it had.
C7_DeletePatientAtomic ==
    [][\A id \in DOMAIN patients :
          \/ id \notin DOMAIN patients' /\ historyRowsNext(id) = {}
          \/ id \in DOMAIN patients' /\ historyRows(id) \subseteq historyRowsNext(id)
      ]_vars


\* The history rows a step adds.
addedHistory == DOMAIN healthHistory' \ DOMAIN healthHistory

\* C4: every history entry records the actor of the mutation that produced
\* it: the initial_record entry written by POST /api/patients has the
\* patient's createdBy as recordedBy, and the manual_edit entry written by
\* PUT /api/patients/:id has the id of the authenticated principal of the
\* request as recordedBy.
C4_HistoryRecordsActor ==
    [][\A token \in DOMAIN sessions :
          /\ \A body \in PostInputs :
                PostPatients(token, body) =>
                    \A h \in addedHistory :
                        healthHistory'[h].changeType = "initial_record" =>
                            healthHistory'[h].recordedBy =
                                patients'[healthHistory'[h].patientId].createdBy
          /\ \A id \in PatientIds, body \in FewUpdateInputs :
                PutPatient(token, id, body) =>
                    \A h \in addedHistory :
                        healthHistory'[h].changeType = "manual_edit" =>
                            healthHistory'[h].recordedBy = sessions[token].id
      ]_vars

\* Whether every character of s is a decimal digit.
allDigits(s) == \A i \in DOMAIN s : s[i] \in {Digit(k) : k \in 0 .. 9}

\* PT-<year>-<zero-padded-sequence>: "PT-", four digits, "-", three digits or
\* more.
matchesGenerationFormat(s) ==
    /\ Len(s) >= 11
    /\ SubSeq(s, 1, 3) = <<"P", "T", "-">>
    /\ allDigits(SubSeq(s, 4, 7))
    /\ s[8] = "-"
    /\ allDigits(SubSeq(s, 9, Len(s)))

\* C10: the patientId of every patient is unique and matches the format
\* PT-<year>-<zero-padded-sequence>, and a creation request of a staff or
\* administrator principal with a valid body succeeds, also when it comes at
\* the clock instant of an earlier creation.
C10_PatientIdGeneration ==
    [][\A token \in DOMAIN sessions, body \in NewPatientInputs :
          PostPatients(token, body) /\ sessions[token].role \in {"staff", "admin"} =>
              /\ last'.val = 200
              /\ \A p \in DOMAIN patients' :
                    matchesGenerationFormat(patients'[p].patientId)
              /\ \A p, q \in DOMAIN patients' :
                    patients'[p].patientId = patients'[q].patientId => p = q
      ]_vars

\* C9: createPatient fails when createdBy references no existing user, and
\* then neither a patient row nor a history entry is persisted; stated for
\* createPatient of DatabaseStorage and of MemStorage.
C9_CreateRejectsUnknownCreator ==
    [][\A body \in NewPatientInputs :
          /\ \A createdBy \in Creators \ DOMAIN users :
                CreatePatient(body, createdBy) =>
                    /\ Threw(last')
                    /\ patients' = patients
                    /\ healthHistory' = healthHistory
          /\ \A createdBy \in Creators \ DOMAIN mem.users :
                Mem_CreatePatient(body, createdBy) =>
                    /\ Threw(last')
                    /\ mem'.patients = mem.patients
                    /\ mem'.healthHistories = mem.healthHistories
      ]_vars

\* C9 for DatabaseStorage alone: the foreign key on patients.created_by
\* rejects the row.
C9_DatabaseRejectsUnknownCreator ==
    [][\A body \in NewPatientInputs, createdBy \in Creators \ DOMAIN users :
          CreatePatient(body, createdBy) =>
              /\ Threw(last')
              /\ patients' = patients
              /\ healthHistory' = healthHistory
      ]_vars

\* C11: the patientId of a patient is the one it was created with: no
\* updatePatient call and no PUT /api/patients/:id request changes the
\* patientId of an existing patient.
C11_PatientIdImmutable ==
    [][\A p \in DOMAIN patients :
          p \in DOMAIN patients' => patients'[p].patientId = patients[p].patientId
      ]_vars

\* A PUT that named another patientId in its body was answered 200.
C11_Witness ==
    /\ last.op = "PUT /api/patients/:id"
    /\ last.val = 200
    /\ "patientId" \in DOMAIN last.arg
    /\ last.id \in DOMAIN patients
    /\ patients[last.id].patientId /= last.arg.patientId

\* The audit entries a step adds.
addedAudit == DOMAIN auditLogs' \ DOMAIN auditLogs

\* The step adds exactly one audit entry, with this action and this user.
auditedOnce(action, userId) ==
    /\ Cardinality(addedAudit) = 1
    /\ \A a \in addedAudit :
          auditLogs'[a].action = action /\ auditLogs'[a].userId = userId

\* C12: a privileged mutation (create, update, delete patient; create, delete
\* user) that succeeds appends exactly one audit entry with the matching
\* action and the acting principal's user id; one that fails, or whose target
\* is not found, appends none.
C12_AuditPerMutation ==
    [][\A token \in DOMAIN sessions :
          LET by == sessions[token].id
              audits(succeeded, action) ==
                  IF succeeded THEN auditedOnce(action, by) ELSE addedAudit = {}
          IN  /\ \A body \in NewPatientInputs :
                    PostPatients(token, body) /\ gate(token, {"staff", "admin"}) = 0 =>
                        audits(createPatient(DB,
                                   [createdBy |-> by] @@ parsePartialPatient(body)
                                   @@ [patientId |-> generatedPatientId(now)],
                                   now).status = "ok",
                               "CREATE_PATIENT")
              /\ \A id \in PatientIds, body \in FewUpdateInputs :
                    PutPatient(token, id, body) /\ gate(token, {"admin", "staff"}) = 0 =>
                        audits(updatePatient(DB, id, parsePartialPatient(body), now).status = "ok",
                               "UPDATE_PATIENT")
              /\ \A id \in PatientIds :
                    DeletePatientRoute(token, id) /\ gate(token, {"admin"}) = 0 =>
                        audits(id \in DOMAIN patients /\ returnedTrue(deletePatient(DB, id)),
                               "DELETE_PATIENT")
              /\ \A body \in NewUserInputs :
                    PostAdminUsers(token, body) /\ gate(token, {"admin"}) = 0 =>
                        audits(parsesAsUser(body) /\ createUser(DB, body).status = "ok",
                               "CREATE_USER")
              /\ \A id \in DeletedUserIds :
                    DeleteAdminUser(token, id) /\ gate(token, {"admin"}) = 0 =>
                        audits(returnedTrue(deleteUser(DB, id)), "DELETE_USER")
      ]_vars

\* Whether rows lists every row of the table logs once, by createdAt
\* descending.
allByCreatedAtDesc(logs, rows) ==
    /\ Len(rows) = Cardinality(DOMAIN logs)
    /\ {rows[i] : i \in DOMAIN rows} = DOMAIN logs
    /\ \A i \in 1 .. (Len(rows) - 1) :
          logs[rows[i]].createdAt >= logs[rows[i + 1]].createdAt

\* C13: audit entries are append-only: a step never changes or removes an
\* entry that was written, in the database and in MemStorage, and
\* getAuditLogs returns all entries by createdAt descending.
C13_AuditAppendOnly ==
    [][/\ \A a \in DOMAIN auditLogs :
             a \in DOMAIN auditLogs' /\ auditLogs'[a] = auditLogs[a]
       /\ \A a \in DOMAIN mem.auditLogs :
             a \in DOMAIN mem'.auditLogs /\ mem'.auditLogs[a] = mem.auditLogs[a]
       /\ \A token \in DOMAIN sessions :
             GetAuditLogsRoute(token) /\ gate(token, {"admin"}) = 0 =>
                 allByCreatedAtDesc(auditLogs, last'.rows)
       /\ Mem_GetAuditLogs => allByCreatedAtDesc(mem.auditLogs, last'.rows)
      ]_vars

\* The administrator read an audit log of two entries written at different
\* times, and MemStorage holds two entries as well.
C13_Witness ==
    /\ last.op = "GET /api/admin/audit-logs"
    /\ Len(last.rows) = 2
    /\ auditLogs[last.rows[1]].createdAt > auditLogs[last.rows[2]].createdAt
    /\ Cardinality(DOMAIN mem.auditLogs) = 2

\* What a rejected request leaves: the status code, and every table as it
\* was.
rejectedWith(code) == last'.val = code /\ UNCHANGED dbVars

\* The answer the claim prescribes to a request bearing token on a route
\* that allows roles.
gated(token, roles) ==
    /\ token \notin DOMAIN sessions => rejectedWith(401)
    /\ token \in DOMAIN sessions /\ sessions[token].role \notin roles => rejectedWith(403)
    /\ token \in DOMAIN sessions /\ sessions[token].role \in roles =>
           last'.val \notin {401, 403}

\* C14: a request to a role-gated route is answered 401 when its token is
\* not in the session map and 403 when the principal's role is not among the
\* route's roles; in both cases no table changes.
C14_GateRejects ==
    [][\A token \in Tokens :
          /\ \A body \in NewPatientInputs :
                PostPatients(token, body) => gated(token, {"staff", "admin"})
          /\ \A id \in PatientIds :
                PutPatient(token, id, [bloodSugar |-> 210]) =>
                    gated(token, {"admin", "staff"})
          /\ \A id \in PatientIds :
                DeletePatientRoute(token, id) => gated(token, {"admin"})
          /\ GetAuditLogsRoute(token) => gated(token, {"admin"})
      ]_vars

\* A staff principal asked to delete an existing patient and got 403.
C14_Witness ==
    /\ last.op = "DELETE /api/patients/:id"
    /\ last.val = 403
    /\ last.id \in DOMAIN patients
    /\ \A token \in DOMAIN sessions : sessions[token].role = "staff"

\* Whether username and password are those of a user whose isActive is true.
validCredentials(username, password) ==
    \E u \in DOMAIN users :
        /\ users[u].username = username
        /\ users[u].password = password
        /\ users[u].isActive

\* Tokens that were issued and have been logged out.
loggedOut == (1 .. sessionsSeq) \ DOMAIN sessions

returnedForeignRecord(token) ==
    /\ last'.val = 200
    /\ patients[last'.id].patientId /= usernameChars(sessions[token].username)

\* C16: a read endpoint of patient data never returns to a patient-role
\* principal a record whose patientId differs from the principal's username
\* (patient history, patient data, patient by id).
C16_PatientSelfServiceOnly ==
    [][\A token \in DOMAIN sessions :
          sessions[token].role = "patient" =>
              /\ \A id \in PatientIds :
                    GetPatientHistory(token, id) => ~returnedForeignRecord(token)
              /\ \A patientId \in PatientKeys :
                    GetPatientData(token, patientId) => ~returnedForeignRecord(token)
              /\ \A id \in PatientIds :
                    GetPatientById(token, id) => ~returnedForeignRecord(token)
      ]_vars

\* Whether rows lists exactly the members of S, each once.
listsExactly(rows, S) ==
    Len(rows) = Cardinality(S) /\ {rows[i] : i \in DOMAIN rows} = S

\* C17: GET /api/patients returns all patients to an admin principal, and to
\* a principal of any other role exactly the patients whose createdBy is the
\* principal's id.
C17_ListScopedByCreator ==
    [][\A token \in DOMAIN sessions :
          GetPatients(token) =>
              /\ last'.val = 200
              /\ listsExactly(last'.rows,
                     IF sessions[token].role = "admin"
                     THEN DOMAIN patients
                     ELSE {p \in DOMAIN patients :
                              patients[p].createdBy = sessions[token].id})
      ]_vars

\* Staff listed the patients while one patient created by staff and one
\* created by the administrator existed, and got one row.
C17_Witness ==
    /\ last.op = "GET /api/patients"
    /\ last.by = 2
    /\ Len(last.rows) = 1
    /\ \E p \in DOMAIN patients : patients[p].createdBy = 1
    /\ \E p \in DOMAIN patients : patients[p].createdBy = 2

\* The tier getVitalStatus gives the patient row.
vitalStatusOf(patient) ==
    getVitalStatus(patient.bloodPressureSystolic, patient.bloodPressureDiastolic,
                   patient.bloodSugar).status

\* C18: stats().totalPatients is the number of patients that listing all
\* patients returns, and stats().criticalCases is the number of patients that
\* the ladder (systolic > 140 OR diastolic > 90 OR sugar > 200) classifies as
\* Critical.
C18_StatsMatchLadder ==
    /\ \A rows \in getAllPatients(DB) : getPatientStats(DB).totalPatients = Len(rows)
    /\ getPatientStats(DB).criticalCases =
           Cardinality({p \in DOMAIN patients : vitalStatusOf(patients[p]) = "Critical"})

\* C19: updating the bloodSugar of a patient whose vitals are not Critical to
\* 210 appends one history entry of changeType manual_edit for that patient,
\* raises stats().criticalCases by exactly 1 and leaves stats().totalPatients
\* as it was.
C19_UpdateRaisesCriticalCases ==
    [][\A id \in DOMAIN patients :
          /\ vitalStatusOf(patients[id]) /= "Critical"
          /\ UpdatePatient(id, [bloodSugar |-> 210])
          => /\ Cardinality(addedHistory) = 1
             /\ \A h \in addedHistory :
                   /\ healthHistory'[h].patientId = id
                   /\ healthHistory'[h].changeType = "manual_edit"
             /\ getPatientStats(DB)'.criticalCases = getPatientStats(DB).criticalCases + 1
             /\ getPatientStats(DB)'.totalPatients = getPatientStats(DB).totalPatients
      ]_vars

\* The status every copy of getVitalStatus returns for the vitals.
statusesOf(systolic, diastolic, sugar) ==
    {getVitalStatus(systolic, diastolic, sugar).status,
     AdminPanel_getVitalStatus(systolic, diastolic, sugar).status,
     PatientManagement_getVitalStatus(systolic, diastolic, sugar).status,
     PatientView_getVitalStatus(systolic, diastolic, sugar).status,
     PatientModal_getVitalStatus(systolic, diastolic, sugar).status}

\* C20: the status a component's getVitalStatus returns is the ladder's
\* (Critical if systolic > 140 or diastolic > 90 or sugar > 200, else Warning
\* if systolic > 120 or diastolic > 80 or sugar > 140, else Normal); no copy
\* returns a lower tier when one input is raised and the others are kept; and
\* every copy returns the same status for the same vitals.
C20_VitalStatusLadder ==
    last.op = "getVitalStatus" =>
        LET systolic == last.arg.systolic
            diastolic == last.arg.diastolic
            sugar == last.arg.sugar
            tier == last.rows[1].status
            rank == [t \in {"Normal", "Warning", "Critical"} |->
                        IF t = "Normal" THEN 0 ELSE IF t = "Warning" THEN 1 ELSE 2]
            raised == {v \in SystolicInputs \X DiastolicInputs \X SugarInputs :
                          \/ v[1] >= systolic /\ v[2] = diastolic /\ v[3] = sugar
                          \/ v[1] = systolic /\ v[2] >= diastolic /\ v[3] = sugar
                          \/ v[1] = systolic /\ v[2] = diastolic /\ v[3] >= sugar}
        IN  /\ tier = "Critical" <=> (systolic > 140 \/ diastolic > 90 \/ sugar > 200)
            /\ tier = "Warning" <=>
                   /\ ~(systolic > 140 \/ diastolic > 90 \/ sugar > 200)
                   /\ (systolic > 120 \/ diastolic > 80 \/ sugar > 140)
            /\ tier = "Normal" <=>
                   ~(systolic > 120 \/ diastolic > 80 \/ sugar > 140
                     \/ systolic > 140 \/ diastolic > 90 \/ sugar > 200)
            /\ \A v \in raised : \A t \in statusesOf(v[1], v[2], v[3]) : rank[t] >= rank[tier]
            /\ statusesOf(systolic, diastolic, sugar) = {tier}

\* PatientModal has classified vitals whose diastolic pressure alone is above
\* the Critical threshold and whose other inputs are above the Warning ones.
C20_Witness ==
    /\ last.op = "getVitalStatus"
    /\ last.by = PatientModal
    /\ last.arg = [systolic |-> 121, diastolic |-> 91, sugar |-> 141]
    /\ last.rows[1].status = "Critical"

RECURSIVE parseCsvFrom(_, _, _, _, _, _)
\* A reader of comma-separated values: the records of text from position i
\* on, with the field and the record read so far; a quote opens a quoted
\* field, in which two quotes stand for one and the next quote closes it; a
\* comma outside quotes ends the field, a line break outside quotes the record.
parseCsvFrom(text, i, inQuotes, field, fields, records) ==
    IF i > Len(text) THEN records \o <<fields \o <<field>>>>
    ELSE IF inQuotes
    THEN IF text[i] /= "\""
         THEN parseCsvFrom(text, i + 1, TRUE, field \o <<text[i]>>, fields, records)
         ELSE IF i < Len(text) /\ text[i + 1] = "\""
         THEN parseCsvFrom(text, i + 2, TRUE, field \o <<"\"">>, fields, records)
         ELSE parseCsvFrom(text, i + 1, FALSE, field, fields, records)
    ELSE IF text[i] = "\"" /\ field = <<>>
    THEN parseCsvFrom(text, i + 1, TRUE, field, fields, records)
    ELSE IF text[i] = ","
    THEN parseCsvFrom(text, i + 1, FALSE, <<>>, fields \o <<field>>, records)
    ELSE IF text[i] \in {"\n", "\r"}
    THEN parseCsvFrom(text, i + 1, FALSE, <<>>, <<>>, records \o <<fields \o <<field>>>>)
    ELSE parseCsvFrom(text, i + 1, FALSE, field \o <<text[i]>>, fields, records)

parseCsv(text) == parseCsvFrom(text, 1, FALSE, <<>>, <<>>, <<>>)

\* The number of double quotes in str.
quotesIn(str) == Cardinality({i \in 1 .. Len(str) : str[i] = "\""})

\* emitted is str as the export has to write it: wrapped in double quotes
\* with every quote doubled when str has a comma, a quote or a line break,
\* and str itself otherwise.
emittedAsRequired(str, emitted) ==
    IF \E i \in 1 .. Len(str) : str[i] \in {",", "\"", "\n", "\r"}
    THEN /\ Len(emitted) = Len(str) + quotesIn(str) + 2
         /\ emitted[1] = "\""
         /\ emitted[Len(emitted)] = "\""
         /\ parseCsv(emitted) = <<<<str>>>>
    ELSE emitted = str

\* C21: each string field of an exported line is emitted wrapped in double
\* quotes with its quotes doubled when it contains a comma, a double quote or
\* a line break and unchanged otherwise, and reading the line back as
\* comma-separated values gives one record with the original strings.
C21_CsvRoundTrip ==
    (last.op = "escapeCsvField"
     /\ last.arg.name.kind = "string" /\ last.arg.medicalHistory.kind = "string") =>
        /\ emittedAsRequired(last.arg.name.str, last.rows[1])
        /\ emittedAsRequired(last.arg.medicalHistory.str, last.rows[2])
        /\ parseCsv(last.rows[3]) = <<<<last.arg.name.str, last.arg.medicalHistory.str>>>>

\* A line was exported whose name has a comma and a quote and whose medical
\* history has a line break.
C21_Witness ==
    /\ last.op = "escapeCsvField"
    /\ last.arg.name = [kind |-> "string", str |-> <<"\"", ",">>]
    /\ last.arg.medicalHistory = [kind |-> "string", str |-> <<"a", "\n">>]
    /\ last.rows[3] = <<"\"", "\"", "\"", ",", "\"", ",", "\"", "a", "\n", "\"">>

\* The child failed: it did not start, exited with a code other than 0, or
\* printed what JSON.parse refuses.
childFailed(outcome) ==
    outcome.event = "error" \/ outcome.code /= 0 \/ outcome.stdout /= "json"

\* The results the fallback of the route of call c can give.
fallbackResults(c) ==
    IF c.op = "POST /api/ai/health-prediction"
    THEN {fallbackHealthPrediction(c.input)}
    ELSE {fallbackImageAnalysis(c.input.filename, c.input.analysisType, random1, random2) :
              random1 \in MathRandom, random2 \in MathRandom}

\* C22: when the child process of a prediction or an image analysis fails,
\* the request is still answered, with the result of the fallback (200),
\* unless the database refuses to save it (400).
C22_PredictorFailureFallsBack ==
    [][\A call \in DOMAIN calls, outcome \in ChildOutcomes :
          (/\ childFailed(outcome)
           /\ IF outcome.event = "close" THEN ChildClose(call, outcome) ELSE ChildError(call))
          => \/ last'.status \in Errors /\ last'.val = 400
             \/ /\ last'.status = "ok"
                /\ last'.val = 200
                /\ last'.rows \in {<<r>> : r \in fallbackResults(calls[call])}
      ]_vars

\* C23: an invocation of a fallback that follows an invocation of the same
\* fallback with equal inputs returns an equal result.
C23_FallbacksDeterministic ==
    [][(/\ last.op \in {"fallbackHealthPrediction", "fallbackImageAnalysis"}
        /\ last'.op = last.op
        /\ last'.arg = last.arg)
       => last'.rows = last.rows
      ]_vars

\* C27: the prediction fallback returns cardiovascularRisk, diabetesRisk and
\* overallHealthScore within [0, 100], and overallHealthScore is
\* max(0, 100 - (cardiovascularRisk + diabetesRisk) / 2) of the sums of the
\* points before they are capped at 100.
C27_FallbackRanges ==
    last.op = "fallbackHealthPrediction" =>
        LET input == last.arg
            result == last.rows[1]
            cardiovascularSum ==
                (IF input.systolicBP > 140 \/ input.diastolicBP > 90 THEN 30 ELSE 0)
                + (IF input.age > 65 THEN 20 ELSE 0)
                + (IF input.gender = "male" THEN 10 ELSE 0)
                + (IF input.bmi > 30 THEN 15 ELSE 0)
                + (IF input.bloodSugar > 200 THEN 25 ELSE 0)
            diabetesSum ==
                (IF input.bloodSugar > 126 THEN 40 ELSE 0)
                + (IF input.bmi > 30 THEN 25 ELSE 0)
                + (IF input.age > 45 THEN 15 ELSE 0)
                + (IF input.systolicBP > 140 THEN 10 ELSE 0)
        IN  /\ result.cardiovascularRisk \in 0 .. 100
            /\ result.diabetesRisk \in 0 .. 100
            /\ result.overallHealthScore \in Halves(0) .. Halves(100)
            /\ result.overallHealthScore =
                   Max(Halves(0), Halves(100) - (cardiovascularSum + diabetesSum))

\* The fallback was invoked on an elderly man with every value above its
\* threshold: both risks at their highest and the score at its lowest.
C27_Witness ==
    /\ last.op = "fallbackHealthPrediction"
    /\ last.arg = [age |-> 66, gender |-> "male", systolicBP |-> 141, diastolicBP |-> 91,
                   bloodSugar |-> 201, bmi |-> 31]
    /\ last.rows[1].cardiovascularRisk = 100
    /\ last.rows[1].diabetesRisk = 90
    /\ last.rows[1].overallHealthScore = Halves(5)

\* The principal may change appointment id: staff, an administrator, or the
\* patient whose patientId is the principal's username.
mayChangeAppointment(principal, id) ==
    \/ principal.role \in {"staff", "admin"}
    \/ /\ principal.role = "patient"
       /\ id \in DOMAIN appointments
       /\ patients[appointments[id].patientId].patientId = usernameChars(principal.username)

\* C24: a PUT or DELETE of an appointment by a principal that is neither
\* staff, nor an administrator, nor the patient of the appointment leaves the
\* appointments as they were.
C24_AppointmentMutableByOwner ==
    [][\A token \in Tokens, id \in AppointmentIds :
          (/\ PutAppointment(token, id, [status |-> "cancelled"]) \/ DeleteAppointment(token, id)
           /\ token \in DOMAIN sessions => ~mayChangeAppointment(sessions[token], id))
          => UNCHANGED appointments
      ]_vars

\* Every reference of a row to a patient or a user names an existing row.
referencesResolve ==
    /\ \A h \in DOMAIN healthHistory :
          /\ healthHistory[h].patientId \in DOMAIN patients
          /\ healthHistory[h].recordedBy \in DOMAIN users
    /\ \A p \in DOMAIN patients : patients[p].createdBy \in DOMAIN users
    /\ \A a \in DOMAIN auditLogs : auditLogs[a].userId \in DOMAIN users

\* C25: in every reachable state the references of history entries, patients
\* and audit entries resolve, and a storage call that the database rejects
\* for a foreign key leaves every table as it was.
C25_ReferentialIntegrity ==
    /\ []referencesResolve
    /\ [][last'.status = "foreign_key_violation" =>
              UNCHANGED <<users, patients, healthHistory, auditLogs>>
         ]_vars

\* The patients of a table with systolic >= 140 or bloodSugar >= 200.
atOrAboveThresholds(table) ==
    {p \in DOMAIN table :
        table[p].bloodPressureSystolic >= 140 \/ table[p].bloodSugar >= 200}

\* C26: criticalCases of the statistics is the number of patients with a
\* systolic pressure of 140 or more or a blood sugar of 200 or more, whatever
\* their diastolic pressure, in DatabaseStorage and in MemStorage.
C26_CriticalCasesInclusive ==
    /\ getPatientStats(DB).criticalCases = Cardinality(atOrAboveThresholds(patients))
    /\ Mem_getPatientStats(mem).criticalCases = Cardinality(atOrAboveThresholds(mem.patients))

\* The change types of the history entries of patient id in a table of
\* history entries, each with the number of its entries.
changeTypesOf(table, id) ==
    [t \in {table[h].changeType : h \in {g \in DOMAIN table : table[g].patientId = id}} |->
        Cardinality({h \in DOMAIN table : table[h].patientId = id /\ table[h].changeType = t})]

\* C28: after the same calls on a DatabaseStorage and a MemStorage of equal
\* contents, each call has returned the same from both, both hold the same
\* patients, every patient has as many history entries of each change type in
\* the one as in the other, and both count the same critical cases.
C28_StoresEquivalent ==
    /\ last.op \in {"createPatient", "updatePatient", "deletePatient", "getPatientStats"}
           => last.rows[1] = last.rows[2]
    /\ DOMAIN patients = DOMAIN mem.patients
    /\ \A p \in DOMAIN patients \cap DOMAIN mem.patients :
           /\ patientResult(patients, p) = patientResult(mem.patients, p)
           /\ changeTypesOf(healthHistory, p) = changeTypesOf(mem.healthHistories, p)
    /\ getPatientStats(DB).criticalCases = Mem_getPatientStats(mem).criticalCases

\* The vitals of the row an updatePatient returned and of the history entry it
\* appended.
vitalsOf(row) ==
    <<row.bloodSugar, row.bloodPressureSystolic, row.bloodPressureDiastolic>>

\* C29: when an updatePatient call that recorded a manual_edit entry has
\* completed, the blood sugar and the systolic and diastolic pressure of that
\* entry are the ones of the patient row as that update wrote it, whatever the
\* payload and however the statements of two calls interleave.
C29_HistoryMatchesRow ==
    (/\ last.op \in {"updatePatient", "MemStorage.updatePatient"}
     /\ last.status = "ok"
     /\ Len(last.rows) = 2)
        => /\ last.rows[2].changeType = "manual_edit"
           /\ vitalsOf(last.rows[2]) = vitalsOf(last.rows[1])

\* The user a session was issued to is still a row of users, active and of
\* the role the session records.
holderStands(token) ==
    /\ sessions[token].id \in DOMAIN users
    /\ users[sessions[token].id].isActive
    /\ users[sessions[token].id].role = sessions[token].role

\* C30: requireAuth accepts a token only while the user it was issued to
\* exists and is active with the role of the session: once that user has been
\* deleted, no request bearing the token is answered under the old identity.
C30_SessionEndsWithUser ==
    [][\A token \in Tokens :
           (GetMe(token) /\ last'.val = 200) => holderStands(token)]_vars

====
